---- MODULE Spec2Model ----
(***************************************************************************)
(* A model of bor's mail-indexer integration layer (src/bor/mu.py) and of  *)
(* the widgets that drive it (src/bor/tabs/message_index.py, message.py,   *)
(* compose.py).                                                            *)
(*                                                                         *)
(* A maildir file is a record [folder, tier, base, delim, flags]: the file *)
(* <root>/<folder>/<tier>/<base>[:2,<flags>].  delim says whether the name *)
(* holds the ":2," delimiter; flags is the run of characters after it.     *)
(***************************************************************************)
EXTENDS Integers, Sequences, FiniteSets, TLC

VARIABLES
    files,          \* the paths that exist on disk
    dirs,           \* the maildir directories that exist: <<folder, tier>>
    idx,            \* the paths the indexer database lists
    _move_history,  \* MuInterface._move_history: <<current, original>> pairs
    last,           \* the MuInterface call made by the last step, and its outcome
    nops,           \* the number of calls made so far
    faulted,        \* whether something went wrong in a call made so far
    messages,       \* MessageIndexWidget.messages (and BorApp._current_messages)
    marked_messages,\* MessageIndexWidget.marked_messages: row indices
    cursor_row,     \* the DataTable's cursor row, rows counted from 1 (0: no row)
    _current_index, \* BorApp._current_index, counted from 1
    view,           \* the MessageViewWidget: its _message_ref and _full_message
    pendingSearch,  \* whether a search task created by the message view waits
    uiLast,         \* the widget action of the last step and the calls that failed
    allOk,          \* whether every flag and move call so far returned a path
    attachments,    \* msg.attachments of the message being forwarded
    forward_dir,    \* the files of _init_forward's target_dir (bor-forward-*)
    extracted,      \* _init_forward's list of extracted paths
    self_attachments, \* ComposeWidget.attachments
    reply_to,       \* ComposeWidget.reply_to: the message replied to
    reply_all,      \* ComposeWidget.reply_all
    to_input,       \* the value of the To input
    cc_list,        \* _init_reply's cc_list
    cc_input,       \* the value of the Cc input
    chain,          \* _compose_references' chain
    references_header, \* the string _compose_references returns
    mu_output,      \* the JSON array `mu find` prints
    find_args,      \* find's threads and include_related arguments
    results,        \* the list find or find_thread returns
    pc,             \* where the function under study is: "idle", "start", "done"
    email_msg,      \* the MIME tree view() parses from the message file
    view_msg,       \* the attachments, body_txt and body_html view() builds
    address,        \* an EmailAddress
    address_text,   \* str(address), as a sequence of characters
    parsed_address, \* EmailAddress.from_mu(address_text)
    mu_result,      \* what `mu find` gave: returncode, stdout, stderr
    find_return,    \* what find did with it: the messages returned, or raised
    _tabs,          \* the panes of the application but tab-0: tab id -> widget
    _tab_order,     \* their ids in display order
    _tab_counter,   \* the number of the last tab id given out
    active,         \* the id of the active tab, 0 for tab-0
    exited,         \* the application has called exit()
    thread_levels,  \* the thread_level of each row of a message list
    thread_prefixes,\* the tree prefix _compute_thread_prefixes gives each row
    _ctrl_l_pressed,\* CtrlLMixin._ctrl_l_pressed of each input of the compose tab
    focused,        \* the widget of the compose tab that has the focus
    posted,         \* the commands the inputs have posted, in order
    delivered,      \* how many of them the ComposeWidget has handled
    key_event,      \* the last key event: key, the input it went to, what became of it
    nkeys,          \* the number of key events so far
    value,          \* the value of an address input, as a sequence of characters
    cursor_pos,     \* its cursor position, counted from 0
    address_start,  \* what _find_address_start(value, cursor_pos) returns
    running,        \* SyncWidget.running
    _process,       \* SyncWidget._process: "None" or "Process", the handle of proc
    exit_code,      \* SyncWidget.exit_code
    output_log,     \* the lines of the SyncOutput log
    proc,           \* the child process: whether it lives, its returncode, the
                    \* signals sent to it
    worker,         \* where the run_sync worker is
    ended_how,      \* how the last run_sync ended
    cancel_tasks,   \* where each _cancel_sync task is: "idle" before it is created
    tab_closed,     \* close_tab() was called on the sync tab
    nruns           \* the number of run_sync calls so far

muVars == <<files, dirs, idx, _move_history, last, nops, faulted>>

uiVars == <<messages, marked_messages, cursor_row, _current_index, view,
            pendingSearch, uiLast, allOk>>

composeVars == <<attachments, forward_dir, extracted, self_attachments, reply_to,
                 reply_all, to_input, cc_list, cc_input, chain, references_header>>

findVars == <<mu_output, find_args, results>>

mimeVars == <<email_msg, view_msg>>

\* the variables of the components that the mail store, the widgets, the
\* compose widget and find's thread levels do not touch
addressVars == <<address, address_text, parsed_address>>

outputVars == <<mu_result, find_return>>

appVars == <<_tabs, _tab_order, _tab_counter, active, exited>>

prefixVars == <<thread_levels, thread_prefixes>>

ctrlVars == <<_ctrl_l_pressed, focused, posted, delivered, key_event, nkeys>>

startVars == <<value, cursor_pos, address_start>>

syncVars == <<running, _process, exit_code, output_log, proc, worker, ended_how,
              cancel_tasks, tab_closed, nruns>>

lateVars == <<prefixVars, ctrlVars, startVars, syncVars>>

restVars == <<mimeVars, addressVars, outputVars, appVars, lateVars>>

vars == <<muVars, uiVars, composeVars, findVars, pc, restVars>>

-----------------------------------------------------------------------------
(* Bounds and sample values *)

\* the number of MuInterface calls of one behaviour
MaxOps == 3

Folders == {"inbox", "archive", "trash"}

Bases == {"m1", "m2"}

\* the order Python's sorted() gives the flag characters
FlagOrder == <<"F", "N", "P", "R", "S">>

\* the deltas of mark_read, mark_unread, mark_flagged(True), mark_flagged(False)
MarkRead == <<"+", "S", "-", "N">>

MarkUnread == <<"-", "S", "+", "N">>

MarkFlagged == <<"+", "F">>

MarkUnflagged == <<"-", "F">>

Deltas == {MarkRead, MarkUnread, MarkFlagged, MarkUnflagged}

\* what can go wrong in one call: nothing, the rename (OSError), the mkdir
\* (OSError), an indexer call that exits non-zero, an indexer call that raises
\* RuntimeError (binary missing, timeout)
Faults == {"none", "rename", "mkdir", "muRemoveFail", "muAddFail",
           "muRemoveRaise", "muAddRaise"}

Path(folder, tier, base, delim, flags) ==
    [folder |-> folder, tier |-> tier, base |-> base, delim |-> delim, flags |-> flags]

\* the value standing for Python's None where a path is expected
NoPath == Path("", "", "", FALSE, <<>>)

NoCall ==
    [op |-> "init", path |-> NoPath, delta |-> <<>>, folder |-> "",
     ret |-> NoPath, ok |-> FALSE, raised |-> FALSE, fault |-> "none",
     calls |-> <<>>]

-----------------------------------------------------------------------------
(* MuInterface._set_flag *)

SeqToSet(s) == {s[i] : i \in DOMAIN s}

\* the flag characters in descending order
SortedFlagsDescending(set) ==
    LET asc == SelectSeq(FlagOrder, LAMBDA c : c \in set)
    IN  [k \in DOMAIN asc |-> asc[Len(asc) + 1 - k]]

\* "".join(sorted(current_flags))
SortedFlags(set) == SelectSeq(FlagOrder, LAMBDA c : c \in set)

\* a delta whose "+" toggles the flag
RECURSIVE ApplyDeltaToggle(_, _, _)
ApplyDeltaToggle(current, delta, i) ==
    IF i + 1 > Len(delta) THEN current
    ELSE LET flag == delta[i + 1]
             next == IF delta[i] = "+" /\ flag \notin current THEN current \cup {flag}
                     ELSE current \ {flag}
         IN ApplyDeltaToggle(next, delta, i + 2)

\* the loop over the delta, two characters at a time, from (1-based) position i
RECURSIVE ApplyDeltaFrom(_, _, _)
ApplyDeltaFrom(current, delta, i) ==
    IF i > Len(delta) THEN current
    ELSE IF i + 1 <= Len(delta)
         THEN LET op == delta[i]
                  flag == delta[i + 1]
                  next == IF op = "+" THEN current \cup {flag}
                          ELSE IF op = "-" THEN current \ {flag}
                          ELSE current
              IN ApplyDeltaFrom(next, delta, i + 2)
         ELSE ApplyDeltaFrom(current, delta, i + 2)

\* base, flags = name.rsplit(":2,", 1), or the whole name and no flags
ParseFlags(path) == IF path.delim THEN path.flags ELSE <<>>

NewFlags(path, delta) ==
    SortedFlags(ApplyDeltaFrom(SeqToSet(ParseFlags(path)), delta, 1))

\* a renamed file that stays in the directory it is in
NewTierStay(path) == path.tier

\* the directory the renamed file goes to: cur for a file in new
NewTier(path) == IF path.tier = "new" THEN "cur" ELSE path.tier

FlaggedPath(path, delta) ==
    Path(path.folder, NewTier(path), path.base, TRUE, NewFlags(path, delta))

\* self._run_mu(["remove", p]) and self._run_mu(["add", p]) on the database
MuRemove(db, p, fault) == IF fault = "muRemoveFail" THEN db ELSE db \ {p}

MuAdd(db, fs, p, fault) ==
    IF fault = "muAddFail" \/ p \notin fs THEN db ELSE db \cup {p}

\* a _set_flag that tells the indexer before it renames the file
SetFlagIndexFirst(fs, ds, db, path, delta, fault) ==
    LET new_dir == <<path.folder, NewTier(path)>>
        new_path == FlaggedPath(path, delta)
        fs1 == (fs \ {path}) \cup {new_path}
        db2 == MuAdd(MuRemove(db, path, fault), fs1, new_path, fault)
        both == << <<"remove", path>>, <<"add", new_path>> >>
    IN  IF path \notin fs
        THEN [files |-> fs, dirs |-> ds, idx |-> db, ret |-> NoPath,
              raised |-> FALSE, calls |-> <<>>]
        ELSE IF fault = "rename"
        THEN [files |-> fs, dirs |-> ds \cup {new_dir}, idx |-> db \ {path},
              ret |-> NoPath, raised |-> FALSE, calls |-> both]
        ELSE [files |-> fs1, dirs |-> ds \cup {new_dir}, idx |-> db2,
              ret |-> new_path, raised |-> FALSE, calls |-> both]

\* the outcome of _set_flag(path, delta): the new disk and database, the value
\* returned, whether the call raised instead of returning, and the indexer
\* commands it ran, in order
SetFlag(fs, ds, db, path, delta, fault) ==
    LET unchanged == [files |-> fs, dirs |-> ds, idx |-> db,
                      ret |-> NoPath, raised |-> FALSE, calls |-> <<>>]
        new_dir == <<path.folder, NewTier(path)>>
        new_path == FlaggedPath(path, delta)
        ds1 == ds \cup {new_dir}
        fs1 == (fs \ {path}) \cup {new_path}
        db1 == MuRemove(db, path, fault)
        db2 == MuAdd(db1, fs1, new_path, fault)
        remove == <<"remove", path>>
        add == <<"add", new_path>>
    IN  IF path \notin fs THEN unchanged
        ELSE IF new_dir \notin ds /\ fault = "mkdir"
             THEN [unchanged EXCEPT !.raised = TRUE]
        ELSE IF fault = "rename"
             THEN [unchanged EXCEPT !.dirs = ds1]
        ELSE IF fault = "muRemoveRaise"
             THEN [files |-> fs1, dirs |-> ds1, idx |-> db,
                   ret |-> NoPath, raised |-> TRUE, calls |-> <<remove>>]
        ELSE IF fault = "muAddRaise"
             THEN [files |-> fs1, dirs |-> ds1, idx |-> db1,
                   ret |-> NoPath, raised |-> TRUE, calls |-> <<remove, add>>]
        ELSE [files |-> fs1, dirs |-> ds1, idx |-> db2,
              ret |-> new_path, raised |-> FALSE, calls |-> <<remove, add>>]

-----------------------------------------------------------------------------
(* MuInterface.move and MuInterface.undo_move *)

MovedPath(path, maildir) ==
    Path(maildir, "cur", path.base, path.delim, path.flags)

\* a history that holds two entries and evicts the oldest
PushHistoryBounded(history, new_path, path) ==
    IF Len(history) >= 2
    THEN Append(Tail(history), <<new_path, path>>)
    ELSE Append(history, <<new_path, path>>)

\* self._move_history.append((str(new_path), path))
PushHistory(history, new_path, path) == Append(history, <<new_path, path>>)

Move(fs, ds, db, history, path, maildir, fault) ==
    LET unchanged == [files |-> fs, dirs |-> ds, idx |-> db, history |-> history,
                      ret |-> NoPath, raised |-> FALSE, calls |-> <<>>]
        target_dir == <<maildir, "cur">>
        new_path == MovedPath(path, maildir)
        ds1 == ds \cup {target_dir}
        h1 == PushHistory(history, new_path, path)
        db1 == MuRemove(db, path, fault)
        fs1 == (fs \ {path}) \cup {new_path}
        db2 == MuAdd(db1, fs1, new_path, fault)
        remove == <<"remove", path>>
        add == <<"add", new_path>>
    IN  IF path \notin fs THEN unchanged
        ELSE IF target_dir \notin ds /\ fault = "mkdir" THEN unchanged
        ELSE IF fault = "muRemoveRaise"
             THEN [unchanged EXCEPT !.dirs = ds1, !.history = h1, !.raised = TRUE,
                                    !.calls = <<remove>>]
        ELSE IF fault = "rename"
             THEN [unchanged EXCEPT !.dirs = ds1, !.history = h1, !.idx = db1,
                                    !.calls = <<remove>>]
        ELSE IF fault = "muAddRaise"
             THEN [files |-> fs1, dirs |-> ds1, idx |-> db1, history |-> h1,
                   ret |-> NoPath, raised |-> TRUE, calls |-> <<remove, add>>]
        ELSE [files |-> fs1, dirs |-> ds1, idx |-> db2, history |-> h1,
              ret |-> new_path, raised |-> FALSE, calls |-> <<remove, add>>]

\* a pop that takes the oldest entry away
PopHistoryOldest(history) == Tail(history)

\* current_path, original_path = self._move_history.pop()
PopHistory(history) == SubSeq(history, 1, Len(history) - 1)

\* undo_move with a copy in place of the move back
UndoMoveCopy(fs, ds, db, history, fault) ==
    LET current == history[Len(history)][1]
        original == history[Len(history)][2]
    IN  IF history = <<>> \/ current \notin fs \/ fault = "rename"
        THEN [files |-> fs, dirs |-> ds, idx |-> db,
              history |-> IF history = <<>> THEN history ELSE PopHistory(history),
              ok |-> FALSE, current |-> NoPath, original |-> NoPath]
        ELSE [files |-> fs \cup {original}, dirs |-> ds, idx |-> db,
              history |-> PopHistory(history), ok |-> TRUE,
              current |-> current, original |-> original]

\* undo_move that also tells the indexer of the restored path
UndoMoveReindex(fs, ds, db, history, fault) ==
    LET current == history[Len(history)][1]
        original == history[Len(history)][2]
    IN  IF history = <<>> \/ current \notin fs \/ fault = "rename"
        THEN [files |-> fs, dirs |-> ds, idx |-> db,
              history |-> IF history = <<>> THEN history ELSE PopHistory(history),
              ok |-> FALSE, current |-> NoPath, original |-> NoPath]
        ELSE [files |-> (fs \ {current}) \cup {original}, dirs |-> ds,
              idx |-> (db \ {current}) \cup {original},
              history |-> PopHistory(history), ok |-> TRUE,
              current |-> current, original |-> original]

\* the outcome of undo_move(): the new disk, database and history, the value
\* returned, and the entry popped
UndoMove(fs, ds, db, history, fault) ==
    LET current == history[Len(history)][1]
        original == history[Len(history)][2]
        h1 == PopHistory(history)
        ds1 == ds \cup {<<original.folder, original.tier>>}
    IN  IF history = <<>>
        THEN [files |-> fs, dirs |-> ds, idx |-> db, history |-> history,
              ok |-> FALSE, current |-> NoPath, original |-> NoPath]
        ELSE IF current \notin fs
        THEN [files |-> fs, dirs |-> ds, idx |-> db, history |-> h1,
              ok |-> FALSE, current |-> current, original |-> original]
        ELSE IF fault = "rename"
        THEN [files |-> fs, dirs |-> ds1, idx |-> db, history |-> h1,
              ok |-> FALSE, current |-> current, original |-> original]
        ELSE [files |-> (fs \ {current}) \cup {original}, dirs |-> ds1,
              idx |-> db, history |-> h1,
              ok |-> TRUE, current |-> current, original |-> original]

-----------------------------------------------------------------------------
(* The specification of MuInterface: calls in any order, on the paths a    *)
(* caller can hold (those on disk, in the database or in the history).     *)

HistoryPaths == UNION {{_move_history[i][1], _move_history[i][2]} : i \in DOMAIN _move_history}

KnownPaths == files \cup idx \cup HistoryPaths

\* an EmailMessage as the widgets hold it: msgid, path and mu's flag names
NoRec == [msgid |-> "", path |-> NoPath, flags |-> {}]

\* no message view: ref is the row of messages that _message_ref is (0 when it
\* is no row of the list, and rec then holds it), full is _full_message.path
NoView == [open |-> FALSE, ref |-> 0, rec |-> NoRec, full |-> NoPath]

\* the widgets' variables while no widget is modelled
UiIdle ==
    /\ messages = <<>>
    /\ marked_messages = {}
    /\ cursor_row = 0
    /\ _current_index = 0
    /\ view = NoView
    /\ pendingSearch = FALSE
    /\ uiLast = [op |-> "init", failed |-> {}, viewFailed |-> FALSE]
    /\ allOk = TRUE

\* the places a message file is in when the program starts
InitPaths(b) ==
    IF b = "m1"
    THEN { Path("inbox", "new", b, FALSE, <<>>),
           Path("inbox", "cur", b, TRUE, <<"S">>) }
    ELSE { Path("archive", "cur", b, TRUE, <<"F", "S">>) }

\* the folders move is called with: the archive and the trash folder
MoveTargets == {"archive", "trash"}

\* at most one call of a behaviour goes wrong
Budget(fault) ==
    /\ fault # "none" => ~faulted
    /\ faulted' = (faulted \/ fault # "none")

DirsOf(fs) == {<<p.folder, p.tier>> : p \in fs}

\* an EmailAddress: name is a string of characters, email one opaque token
NoAddress == [name |-> <<>>, email |-> ""]

\* the fields of an EmailMessage that a reply reads; reply_to_addr is <<>> for
\* None and <<address>> otherwise
NoMessage == [from_addr |-> NoAddress, reply_to_addr |-> <<>>, to_addrs |-> <<>>,
              cc_addrs |-> <<>>, msgid |-> <<>>, references |-> <<>>]

\* the compose widget's variables while no compose widget is modelled
ComposeIdle ==
    /\ attachments = <<>>
    /\ forward_dir = {}
    /\ extracted = <<>>
    /\ self_attachments = <<>>
    /\ reply_to = NoMessage
    /\ reply_all = FALSE
    /\ to_input = <<>>
    /\ cc_list = <<>>
    /\ cc_input = <<>>
    /\ chain = <<>>
    /\ references_header = <<>>

\* what view() has built before it parses anything
NoParsed == [attachments |-> <<>>, body_txt |-> <<>>, body_html |-> <<>>]

\* the MIME variables while no message is parsed
MimeIdle ==
    /\ email_msg = <<>>
    /\ view_msg = NoParsed

\* no address is formatted
AddressIdle ==
    /\ address = NoAddress
    /\ address_text = <<>>
    /\ parsed_address = NoAddress

\* the value of find_return before find has returned
NoReturn == [threads |-> FALSE, raised |-> FALSE, messages |-> <<>>]

\* no indexer output is parsed
OutputIdle ==
    /\ mu_result = [returncode |-> 0, stdout |-> <<>>, stderr |-> ""]
    /\ find_return = NoReturn

\* the application with the message index alone
AppIdle ==
    /\ _tabs = <<>>
    /\ _tab_order = <<>>
    /\ _tab_counter = 0
    /\ active = 0
    /\ exited = FALSE

\* no tree prefix is computed
PrefixIdle ==
    /\ thread_levels = <<>>
    /\ thread_prefixes = <<>>

\* the inputs of the compose tab: #to-input, #cc-input, #bcc-input,
\* #subject-input and #body-input
Inputs == {"to", "cc", "bcc", "subject", "body"}

\* a compose tab nobody has typed in
CtrlIdle ==
    /\ _ctrl_l_pressed = [w \in Inputs |-> FALSE]
    /\ focused = "to"
    /\ posted = <<>>
    /\ delivered = 0
    /\ key_event = [key |-> "", widget |-> "", outcome |-> ""]
    /\ nkeys = 0

\* no address start is looked for
StartIdle ==
    /\ value = <<>>
    /\ cursor_pos = 0
    /\ address_start = 0

\* the _cancel_sync tasks that a run creates
MaxCancelTasks == 2

\* no child process
NoProc == [alive |-> FALSE, returncode |-> "None", signals |-> <<>>]

\* a SyncWidget as __init__ leaves it, not mounted yet
SyncIdle ==
    /\ running = FALSE
    /\ _process = "None"
    /\ exit_code = "None"
    /\ output_log = <<>>
    /\ proc = NoProc
    /\ worker = "unmounted"
    /\ ended_how = ""
    /\ cancel_tasks = [c \in 1..MaxCancelTasks |-> "idle"]
    /\ tab_closed = FALSE
    /\ nruns = 0

LateIdle == PrefixIdle /\ CtrlIdle /\ StartIdle /\ SyncIdle

RestIdle == MimeIdle /\ AddressIdle /\ OutputIdle /\ AppIdle /\ LateIdle

\* find's variables while no find call is modelled
FindIdle ==
    /\ mu_output = <<>>
    /\ find_args = [threads |-> FALSE, include_related |-> FALSE]
    /\ results = <<>>

\* the mail store's variables while no mail store is modelled
MuIdle ==
    /\ files = {}
    /\ dirs = {}
    /\ idx = {}
    /\ _move_history = <<>>
    /\ last = NoCall
    /\ nops = 0
    /\ faulted = FALSE

MuInit ==
    /\ \E f \in [Bases -> UNION {InitPaths(b) : b \in Bases}] :
          /\ \A b \in Bases : f[b] \in InitPaths(b)
          /\ files = {f[b] : b \in Bases}
    /\ dirs = DirsOf(files) \cup {<<"inbox", "new">>}
    /\ idx = files
    /\ _move_history = <<>>
    /\ last = NoCall
    /\ nops = 0
    /\ faulted = FALSE
    /\ UiIdle
    /\ ComposeIdle
    /\ FindIdle
    /\ pc = "idle"
    /\ RestIdle

DoSetFlag ==
    /\ nops < MaxOps
    /\ \E path \in KnownPaths, delta \in Deltas, fault \in Faults :
          LET r == SetFlag(files, dirs, idx, path, delta, fault)
          IN  /\ Budget(fault)
              /\ files' = r.files
              /\ dirs' = r.dirs
              /\ idx' = r.idx
              /\ last' = [op |-> "set_flag", path |-> path, delta |-> delta,
                          folder |-> "", ret |-> r.ret, ok |-> r.ret # NoPath,
                          raised |-> r.raised, fault |-> fault, calls |-> r.calls]
    /\ nops' = nops + 1
    /\ UNCHANGED <<_move_history, uiVars, composeVars, findVars, pc, restVars>>

DoMove ==
    /\ nops < MaxOps
    /\ \E path \in KnownPaths, maildir \in MoveTargets, fault \in Faults :
          LET r == Move(files, dirs, idx, _move_history, path, maildir, fault)
          IN  /\ Budget(fault)
              /\ files' = r.files
              /\ dirs' = r.dirs
              /\ idx' = r.idx
              /\ _move_history' = r.history
              /\ last' = [op |-> "move", path |-> path, delta |-> <<>>,
                          folder |-> maildir, ret |-> r.ret, ok |-> r.ret # NoPath,
                          raised |-> r.raised, fault |-> fault, calls |-> r.calls]
    /\ nops' = nops + 1
    /\ UNCHANGED <<uiVars, composeVars, findVars, pc, restVars>>

DoUndoMove ==
    /\ nops < MaxOps
    /\ \E fault \in {"none", "rename"} :
          LET r == UndoMove(files, dirs, idx, _move_history, fault)
          IN  /\ Budget(fault)
              /\ files' = r.files
              /\ dirs' = r.dirs
              /\ idx' = r.idx
              /\ _move_history' = r.history
              /\ last' = [op |-> "undo_move", path |-> r.current, delta |-> <<>>,
                          folder |-> "", ret |-> r.original, ok |-> r.ok,
                          raised |-> FALSE, fault |-> fault, calls |-> <<>>]
    /\ nops' = nops + 1
    /\ UNCHANGED <<uiVars, composeVars, findVars, pc, restVars>>

MuNext == DoSetFlag \/ DoMove \/ DoUndoMove

Spec == MuInit /\ [][MuNext]_vars

-----------------------------------------------------------------------------
(* MuInterface.find, find_by_msgid and view, as the widgets use them *)

\* the order the indexer returns the messages in
BaseOrder == <<"m1", "m2">>

\* the flag names mu reports for a maildir file
MuFlags(p) ==
    (IF "S" \in SeqToSet(ParseFlags(p)) THEN {"seen"} ELSE {"unread"})
    \cup (IF p.tier = "new" THEN {"new"} ELSE {})
    \cup (IF "F" \in SeqToSet(ParseFlags(p)) THEN {"flagged"} ELSE {})

\* EmailMessage.from_mu_json of the database's entry for p
MsgRec(p) == [msgid |-> p.base, path |-> p, flags |-> MuFlags(p)]

\* the database's entry of message b in folder query, or NoPath
EntryOf(db, query, b) ==
    IF \E p \in db : p.base = b /\ p.folder = query
    THEN CHOOSE p \in db : p.base = b /\ p.folder = query
    ELSE NoPath

\* find(query): the records of the database's entries of one maildir
RECURSIVE FindFrom(_, _, _)
FindFrom(db, query, i) ==
    IF i > Len(BaseOrder) THEN <<>>
    ELSE LET p == EntryOf(db, query, BaseOrder[i])
         IN  (IF p = NoPath THEN <<>> ELSE <<MsgRec(p)>>) \o FindFrom(db, query, i + 1)

Find(db, query) == FindFrom(db, query, 1)

\* find_by_msgid(msgid): the path of the first result, or NoPath
FindByMsgid(db, msgid) ==
    IF \E p \in db : p.base = msgid
    THEN CHOOSE p \in db : p.base = msgid
    ELSE NoPath

\* _is_new_or_unread(path)
IsNewOrUnread(p) == p.tier = "new" \/ "S" \notin SeqToSet(ParseFlags(p))

\* view(path, mark_as_read, msgid): the new disk and database, the path of the
\* message returned (NoPath for None) and whether its mark_read failed
View(fs, ds, db, path, msgid, mark_as_read, fault) ==
    LET current == FindByMsgid(db, msgid)
        p1 == IF path \notin fs /\ msgid # "" /\ current # NoPath
              THEN current ELSE path
        r == SetFlag(fs, ds, db, p1, MarkRead, fault)
    IN  IF p1 \notin fs
        THEN [files |-> fs, dirs |-> ds, idx |-> db, path |-> NoPath,
              markFailed |-> FALSE]
        ELSE IF mark_as_read /\ IsNewOrUnread(p1)
        THEN [files |-> r.files, dirs |-> r.dirs, idx |-> r.idx,
              path |-> IF r.ret # NoPath THEN r.ret ELSE p1,
              markFailed |-> r.ret = NoPath]
        ELSE [files |-> fs, dirs |-> ds, idx |-> db, path |-> p1,
              markFailed |-> FALSE]

-----------------------------------------------------------------------------
(* MessageIndexWidget and MessageViewWidget *)

\* the number of widget actions of one behaviour
MaxUiOps == 3

FlagKeys == {"u", "U", "n", "N", "f", "F"}

\* the delta the flag bar's key makes the widget apply
KeyDelta(key) ==
    IF key \in {"U", "N"} THEN MarkRead
    ELSE IF key \in {"u", "n"} THEN MarkUnread
    ELSE IF key = "f" THEN MarkFlagged
    ELSE MarkUnflagged

\* the flags the widget gives the in-memory record after the call
KeyFlags(key, flags) ==
    IF key = "U" THEN (flags \ {"unread"}) \cup {"seen"}
    ELSE IF key = "u" THEN (flags \cup {"unread"}) \ {"seen"}
    ELSE IF key = "N" THEN flags \ {"new"}
    ELSE IF key = "n" THEN flags \cup {"new", "unread"}
    ELSE IF key = "F" THEN flags \ {"flagged"}
    ELSE flags \cup {"flagged"}

\* _do_apply_flag_async's loop over messages_to_flag, from the i-th target on:
\* the call on the record's path, then the update of the record's flags
RECURSIVE IndexFlagLoop(_, _, _, _, _, _, _, _)
IndexFlagLoop(fs, ds, db, msgs, targets, i, key, fault) ==
    IF i > Len(targets)
    THEN [files |-> fs, dirs |-> ds, idx |-> db, messages |-> msgs, failed |-> {}]
    ELSE LET t == targets[i]
             r == SetFlag(fs, ds, db, msgs[t].path, KeyDelta(key), fault)
             msgs1 == [msgs EXCEPT ![t].flags = KeyFlags(key, @)]
             rest == IndexFlagLoop(r.files, r.dirs, r.idx, msgs1, targets, i + 1,
                                   key, fault)
         IN  [rest EXCEPT !.failed = @ \cup (IF r.ret = NoPath THEN {t} ELSE {})]

\* the rows of marked_messages that are rows of the list, in ascending order
RECURSIVE RowsFrom(_, _, _)
RowsFrom(marked, n, i) ==
    IF i > n THEN <<>>
    ELSE (IF i \in marked THEN <<i>> ELSE <<>>) \o RowsFrom(marked, n, i + 1)

Reverse(s) == [i \in DOMAIN s |-> s[Len(s) + 1 - i]]

\* the rows a flag, archive or delete action of the index acts on
Targets ==
    IF marked_messages # {} THEN RowsFrom(marked_messages, Len(messages), 1)
    ELSE IF cursor_row \in DOMAIN messages THEN <<cursor_row>>
    ELSE <<>>

\* the loop of _do_archive_async and _do_delete_async over the rows to move
RECURSIVE IndexMoveLoop(_, _, _, _, _, _, _, _, _)
IndexMoveLoop(fs, ds, db, history, msgs, targets, i, folder, fault) ==
    IF i > Len(targets)
    THEN [files |-> fs, dirs |-> ds, idx |-> db, history |-> history, failed |-> {}]
    ELSE LET t == targets[i]
             r == Move(fs, ds, db, history, msgs[t].path, folder, fault)
             rest == IndexMoveLoop(r.files, r.dirs, r.idx, r.history, msgs, targets,
                                   i + 1, folder, fault)
         IN  [rest EXCEPT !.failed = @ \cup (IF r.ret = NoPath THEN {t} ELSE {})]

\* _message_ref: a row of the list, or the record the view holds on its own
ViewRec == IF view.ref > 0 THEN messages[view.ref] ELSE view.rec

\* the view once the index has replaced its list: _message_ref is the old record
Detached(v, msgs) ==
    IF v.open /\ v.ref > 0 THEN [v EXCEPT !.ref = 0, !.rec = msgs[v.ref]] ELSE v

\* the query of the message index: the inbox folder
CurrentQuery == "inbox"

\* MessageIndexWidget.search(current_query), which puts _current_index on the
\* first row, then _restore_cursor(row) when the new list has rows (row 1 is
\* the search alone); rows count from 1 here and from 0 in the code
Search(db, row) ==
    LET found == Find(db, CurrentQuery)
        at == IF found = <<>> THEN 0
              ELSE IF row < 1 THEN 1
              ELSE IF row > Len(found) THEN Len(found) ELSE row
    IN  /\ messages' = found
        /\ marked_messages' = {}
        /\ cursor_row' = at
        /\ _current_index' = IF found = <<>> THEN 1 ELSE at

UiStep(op, failed, viewFailed, fault) ==
    /\ nops < MaxUiOps
    /\ nops' = nops + 1
    /\ Budget(fault)
    /\ uiLast' = [op |-> op, failed |-> failed, viewFailed |-> viewFailed]
    /\ allOk' = (allOk /\ failed = {} /\ ~viewFailed)
    /\ last' = last
    /\ UNCHANGED <<composeVars, findVars, pc, restVars>>

UiFaults == {"none", "rename"}

\* the second message of the mail store: unread in the inbox, or archived
UiInitPaths == {Path("inbox", "cur", "m2", TRUE, <<>>)} \cup InitPaths("m2")

UiInit ==
    /\ \E p1 \in InitPaths("m1"), p2 \in UiInitPaths : files = {p1, p2}
    /\ dirs = DirsOf(files) \cup {<<"inbox", "new">>}
    /\ idx = files
    /\ _move_history = <<>>
    /\ last = NoCall
    /\ nops = 0
    /\ faulted = FALSE
    /\ messages = Find(idx, CurrentQuery)
    /\ marked_messages = {}
    /\ cursor_row = 1
    /\ _current_index = 1
    /\ view = NoView
    /\ pendingSearch = FALSE
    /\ uiLast = [op |-> "init", failed |-> {}, viewFailed |-> FALSE]
    /\ allOk = TRUE
    /\ ComposeIdle
    /\ FindIdle
    /\ pc = "idle"
    /\ RestIdle

\* action_cursor_down and action_cursor_up of the index
IndexCursor ==
    /\ \E row \in {cursor_row - 1, cursor_row + 1} :
          /\ row \in DOMAIN messages
          /\ cursor_row' = row
          /\ _current_index' = row
    /\ UiStep("cursor", {}, FALSE, "none")
    /\ UNCHANGED <<files, dirs, idx, _move_history, messages, marked_messages,
                   view, pendingSearch>>

\* action_mark_message of the index: toggle the mark, then cursor down
IndexMark ==
    /\ cursor_row \in DOMAIN messages
    /\ marked_messages' = IF cursor_row \in marked_messages
                          THEN marked_messages \ {cursor_row}
                          ELSE marked_messages \cup {cursor_row}
    /\ cursor_row' = IF cursor_row + 1 \in DOMAIN messages
                     THEN cursor_row + 1 ELSE cursor_row
    /\ _current_index' = cursor_row'
    /\ UiStep("mark", {}, FALSE, "none")
    /\ UNCHANGED <<files, dirs, idx, _move_history, messages, view, pendingSearch>>

\* action_apply_flag of the index with the key chosen: _do_apply_flag_async
IndexApplyFlag ==
    \E key \in FlagKeys, fault \in UiFaults :
        LET r == IndexFlagLoop(files, dirs, idx, messages, Targets, 1, key, fault)
        IN  /\ Targets # <<>>
            /\ files' = r.files
            /\ dirs' = r.dirs
            /\ idx' = r.idx
            /\ messages' = r.messages
            /\ marked_messages' = {}
            /\ UiStep("index_flag", r.failed, FALSE, fault)
            /\ UNCHANGED <<_move_history, cursor_row, _current_index, view,
                           pendingSearch>>

\* action_archive and action_delete of the index, confirmed: _do_archive_async
\* restores the cursor after its search, _do_delete_async does not
IndexMove ==
    \E folder \in MoveTargets, fault \in UiFaults :
        LET targets == Reverse(Targets)
            r == IndexMoveLoop(files, dirs, idx, _move_history, messages, targets,
                               1, folder, fault)
            above == Cardinality({t \in marked_messages : t < cursor_row})
        IN  /\ Targets # <<>>
            /\ files' = r.files
            /\ dirs' = r.dirs
            /\ idx' = r.idx
            /\ _move_history' = r.history
            /\ Search(r.idx, IF folder = "archive" THEN cursor_row - above ELSE 1)
            /\ view' = Detached(view, messages)
            /\ UiStep("index_move", r.failed, FALSE, fault)
            /\ UNCHANGED pendingSearch

\* action_undo of the index: undo_move, and a search when it succeeded
IndexUndo ==
    \E fault \in UiFaults :
        LET r == UndoMove(files, dirs, idx, _move_history, fault)
        IN  /\ files' = r.files
            /\ dirs' = r.dirs
            /\ idx' = r.idx
            /\ _move_history' = r.history
            /\ IF r.ok
               THEN Search(r.idx, 1) /\ view' = Detached(view, messages)
               ELSE UNCHANGED <<messages, marked_messages, cursor_row,
                                _current_index, view>>
            /\ UiStep("index_undo", {}, FALSE, fault)
            /\ UNCHANGED pendingSearch

\* find_thread(message): the two messages are one thread, so the query with
\* --include-related gives the database's entries of both, whatever their folder
ThreadOf(db) ==
    LET Entry(b) == CHOOSE p \in db : p.base = b
        InDb(b) == \E p \in db : p.base = b
        bases == SelectSeq(BaseOrder, InDb)
    IN  [k \in DOMAIN bases |-> MsgRec(Entry(bases[k]))]

\* action_show_thread of the index: the list becomes the thread of the message
\* under the cursor and the table is filled again, which puts the cursor on
\* its first row; marked_messages and _current_index are not assigned
IndexShowThread ==
    /\ cursor_row \in DOMAIN messages
    /\ messages' = ThreadOf(idx)
    /\ cursor_row' = IF messages' = <<>> THEN 0 ELSE 1
    /\ view' = Detached(view, messages)
    /\ UiStep("show_thread", {}, FALSE, "none")
    /\ UNCHANGED <<files, dirs, idx, _move_history, marked_messages, _current_index,
                   pendingSearch>>

\* MessageViewWidget._load_message for the row `row` of the list
LoadMessage(row, fault, op) ==
    LET ref == messages[row]
        r == View(files, dirs, idx, ref.path, ref.msgid, TRUE, fault)
        seen == (ref.flags \ {"unread", "new"}) \cup {"seen"}
    IN  /\ files' = r.files
        /\ dirs' = r.dirs
        /\ idx' = r.idx
        /\ messages' = IF r.path = NoPath THEN messages
                       ELSE [messages EXCEPT ![row] =
                                [msgid |-> ref.msgid, path |-> r.path, flags |-> seen]]
        /\ view' = [open |-> TRUE, ref |-> row, rec |-> NoRec, full |-> r.path]
        /\ UiStep(op, {}, r.markFailed, fault)

\* action_open_message of the index: a message view is mounted on the row
IndexOpenMessage ==
    /\ ~view.open
    /\ cursor_row \in DOMAIN messages
    /\ \E fault \in UiFaults : LoadMessage(cursor_row, fault, "open")
    /\ _current_index' = cursor_row
    /\ UNCHANGED <<_move_history, marked_messages, cursor_row, pendingSearch>>

\* action_apply_flag of the message view with the key chosen: _do_apply_flag
ViewApplyFlag ==
    /\ view.open /\ view.full # NoPath
    /\ \E key \in FlagKeys, fault \in UiFaults :
          LET r == SetFlag(files, dirs, idx, view.full, KeyDelta(key), fault)
              rec == [ViewRec EXCEPT !.flags = KeyFlags(key, @)]
          IN  /\ files' = r.files
              /\ dirs' = r.dirs
              /\ idx' = r.idx
              /\ IF view.ref > 0
                 THEN messages' = [messages EXCEPT ![view.ref] = rec]
                      /\ view' = view
                 ELSE messages' = messages /\ view' = [view EXCEPT !.rec = rec]
              /\ UiStep("view_flag", {}, r.ret = NoPath, fault)
    /\ UNCHANGED <<_move_history, marked_messages, cursor_row, _current_index,
                   pendingSearch>>

\* action_archive and action_delete of the message view, confirmed: the move,
\* the search task created, then the message at _current_index or the tab closed
ViewMove ==
    /\ view.open /\ view.full # NoPath
    /\ \E folder \in MoveTargets, fault \in UiFaults :
          LET m == Move(files, dirs, idx, _move_history, view.full, folder, fault)
              row == _current_index
              ref == messages[row]
              r == View(m.files, m.dirs, m.idx, ref.path, ref.msgid, TRUE, fault)
              seen == (ref.flags \ {"unread", "new"}) \cup {"seen"}
          IN  /\ _move_history' = m.history
              /\ IF row \in DOMAIN messages
                 THEN /\ files' = r.files
                      /\ dirs' = r.dirs
                      /\ idx' = r.idx
                      /\ messages' =
                            IF r.path = NoPath THEN messages
                            ELSE [messages EXCEPT ![row] =
                                    [msgid |-> ref.msgid, path |-> r.path,
                                     flags |-> seen]]
                      /\ view' = [open |-> TRUE, ref |-> row, rec |-> NoRec,
                                  full |-> r.path]
                      /\ UiStep("view_move", {}, m.ret = NoPath \/ r.markFailed, fault)
                 ELSE /\ files' = m.files
                      /\ dirs' = m.dirs
                      /\ idx' = m.idx
                      /\ messages' = messages
                      /\ view' = NoView
                      /\ UiStep("view_move", {}, m.ret = NoPath, fault)
    /\ pendingSearch' = TRUE
    /\ UNCHANGED <<marked_messages, cursor_row, _current_index>>

\* action_return_to_index of the message view: the tab closes and the index
\* cursor moves to _current_index
ViewClose ==
    /\ view.open
    /\ view' = NoView
    /\ cursor_row' = IF _current_index \in DOMAIN messages
                     THEN _current_index ELSE cursor_row
    /\ UiStep("close", {}, FALSE, "none")
    /\ UNCHANGED <<files, dirs, idx, _move_history, messages, marked_messages,
                   _current_index, pendingSearch>>

\* the search task that _refresh_index_after_move created runs
RunSearchTask ==
    /\ pendingSearch
    /\ pendingSearch' = FALSE
    /\ Search(idx, 1)
    /\ view' = Detached(view, messages)
    /\ UiStep("search", {}, FALSE, "none")
    /\ UNCHANGED <<files, dirs, idx, _move_history>>

UiNext ==
    \/ IndexCursor
    \/ IndexMark
    \/ IndexApplyFlag
    \/ IndexMove
    \/ IndexUndo
    \/ IndexShowThread
    \/ IndexOpenMessage
    \/ ViewApplyFlag
    \/ ViewMove
    \/ ViewClose
    \/ RunSearchTask

SpecUI == UiInit /\ [][UiNext]_vars

-----------------------------------------------------------------------------
(* ComposeWidget._init_forward and MuInterface.extract_attachment *)

\* the number of attachments of the message forwarded
MaxAttachments == 3

\* the file names the attachments extract to
FileNames == {"file.txt", "notes.txt"}

\* `mu extract --parts <index> --target-dir <dir> --overwrite`: the part is
\* written under its file name, over a file of that name; a file's content is
\* the index of the part it was written from
MuExtract(dir, filename, attachment_index) ==
    {f \in dir : f.name # filename}
        \cup {[name |-> filename, content |-> attachment_index]}

\* extract_attachment(message_path, attachment_index, target_dir): the new
\* directory and the path returned, which is the new file, else the only file,
\* else the file mu reports as written (also the most recently modified one)
ExtractAttachment(dir, filename, attachment_index) ==
    [dir |-> MuExtract(dir, filename, attachment_index), path |-> filename]

\* _init_forward's loop over msg.attachments from the i-th on: an attachment
\* without part_index is skipped, a path already in extracted is not appended
RECURSIVE ForwardLoop(_, _, _, _)
ForwardLoop(atts, i, dir, paths) ==
    IF i > Len(atts) THEN [dir |-> dir, extracted |-> paths]
    ELSE IF atts[i].part_index = 0 THEN ForwardLoop(atts, i + 1, dir, paths)
    ELSE LET r == ExtractAttachment(dir, atts[i].filename, atts[i].part_index)
         IN  ForwardLoop(atts, i + 1, r.dir,
                         IF r.path \in SeqToSet(paths) THEN paths
                         ELSE Append(paths, r.path))

\* a message's attachments as view() lists them: the i-th attachment is MIME
\* part i + 1 (part 1 is the body), and part_index 0 stands for an attachment
\* entry that carries no part_index
ForwardInit ==
    /\ \E n \in 0..MaxAttachments :
          \E names \in [1..n -> FileNames], indexed \in [1..n -> BOOLEAN] :
              attachments = [i \in 1..n |->
                                [filename |-> names[i],
                                 part_index |-> IF indexed[i] THEN i + 1 ELSE 0]]
    /\ forward_dir = {}
    /\ extracted = <<>>
    /\ self_attachments = <<>>
    /\ reply_to = NoMessage
    /\ reply_all = FALSE
    /\ to_input = <<>>
    /\ cc_list = <<>>
    /\ cc_input = <<>>
    /\ chain = <<>>
    /\ references_header = <<>>
    /\ MuIdle
    /\ UiIdle
    /\ FindIdle
    /\ pc = "start"
    /\ RestIdle

\* _init_forward, from `if msg.attachments` on
InitForward ==
    /\ pc = "start"
    /\ LET r == ForwardLoop(attachments, 1, {}, <<>>)
       IN  IF attachments # <<>>
           THEN /\ forward_dir' = r.dir
                /\ extracted' = r.extracted
                /\ self_attachments' = self_attachments \o r.extracted
           ELSE UNCHANGED <<forward_dir, extracted, self_attachments>>
    /\ pc' = "done"
    /\ UNCHANGED <<attachments, reply_to, reply_all, to_input, cc_list, cc_input,
                   chain, references_header, muVars, uiVars, findVars, restVars>>

ForwardNext == InitForward

SpecForward == ForwardInit /\ [][ForwardNext]_vars

-----------------------------------------------------------------------------
(* EmailAddress.__str__ and ComposeWidget._init_reply *)

\* the number of addresses of the To list and of the Cc list of the original
MaxAddrs == 2

\* config.identity.email
IdentityEmail == "me"

\* the characters of a name that make __str__ quote it
SpecialChars == {",", ";", ":", "\"", "<", ">", "@", "[", "]"}

\* self.name.replace('"', '\\"')
RECURSIVE EscapeQuotes(_)
EscapeQuotes(name) ==
    IF name = <<>> THEN <<>>
    ELSE (IF Head(name) = "\"" THEN <<"\\", "\"">> ELSE <<Head(name)>>)
         \o EscapeQuotes(Tail(name))

\* EmailAddress.__str__: the string as a sequence of characters, the email
\* being one element of it
Str(addr) ==
    IF addr.name = <<>> THEN <<addr.email>>
    ELSE IF \E i \in DOMAIN addr.name : addr.name[i] \in SpecialChars
    THEN <<"\"">> \o EscapeQuotes(addr.name) \o <<"\"", " ", "<", addr.email, ">">>
    ELSE addr.name \o <<" ", "<", addr.email, ">">>

\* sep.join(strings)
RECURSIVE Join(_, _)
Join(strings, sep) ==
    IF strings = <<>> THEN <<>>
    ELSE IF Len(strings) = 1 THEN strings[1]
    ELSE strings[1] \o sep \o Join(Tail(strings), sep)

\* _init_reply's loop over list(msg.to_addrs) + list(msg.cc_addrs) from the
\* i-th on: cc is cc_list, seen is cc_seen
RECURSIVE CcLoop(_, _, _, _)
CcLoop(addrs, i, cc, seen) ==
    IF i > Len(addrs) THEN cc
    ELSE IF addrs[i].email = IdentityEmail THEN CcLoop(addrs, i + 1, cc, seen)
    ELSE IF Str(addrs[i]) \in seen THEN CcLoop(addrs, i + 1, cc, seen)
    ELSE CcLoop(addrs, i + 1, Append(cc, Str(addrs[i])), seen \cup {Str(addrs[i])})

\* _init_reply's to_addrs
ReplyTo(msg) ==
    IF msg.reply_to_addr # <<>> THEN <<Str(msg.reply_to_addr[1])>>
    ELSE <<Str(msg.from_addr)>>

\* the addresses of the messages replied to
Addresses ==
    { [name |-> <<"A">>, email |-> "a"],
      [name |-> <<>>, email |-> "a"],
      [name |-> <<"B", ",">>, email |-> "b"],
      [name |-> <<"M">>, email |-> IdentityEmail],
      [name |-> <<>>, email |-> IdentityEmail] }

Senders == { [name |-> <<"A">>, email |-> "a"], [name |-> <<"C", "\"">>, email |-> "c"] }

ReplyToHeaders == { <<>>, <<[name |-> <<"B", ",">>, email |-> "b"]>> }

AddressLists == UNION {[1..n -> Addresses] : n \in 0..MaxAddrs}

ReplyInit ==
    /\ \E from_addr \in Senders, reply_to_addr \in ReplyToHeaders,
          to_addrs \in AddressLists, cc_addrs \in AddressLists :
              reply_to = [from_addr |-> from_addr, reply_to_addr |-> reply_to_addr,
                          to_addrs |-> to_addrs, cc_addrs |-> cc_addrs,
                          msgid |-> <<>>, references |-> <<>>]
    /\ reply_all \in BOOLEAN
    /\ to_input = <<>>
    /\ cc_list = <<>>
    /\ cc_input = <<>>
    /\ attachments = <<>>
    /\ forward_dir = {}
    /\ extracted = <<>>
    /\ self_attachments = <<>>
    /\ chain = <<>>
    /\ references_header = <<>>
    /\ MuIdle
    /\ UiIdle
    /\ FindIdle
    /\ pc = "start"
    /\ RestIdle

\* _init_reply, up to the To and Cc inputs
InitReply ==
    /\ pc = "start"
    /\ LET to_addrs == ReplyTo(reply_to)
           cc == CcLoop(reply_to.to_addrs \o reply_to.cc_addrs, 1, <<>>,
                        SeqToSet(to_addrs))
       IN  /\ to_input' = Join(to_addrs, <<",", " ">>)
           /\ IF reply_all
              THEN /\ cc_list' = cc
                   /\ cc_input' = IF cc # <<>> THEN Join(cc, <<",", " ">>)
                                  ELSE cc_input
              ELSE UNCHANGED <<cc_list, cc_input>>
    /\ pc' = "done"
    /\ UNCHANGED <<attachments, forward_dir, extracted, self_attachments, reply_to,
                   reply_all, chain, references_header, muVars, uiVars, findVars, restVars>>

ReplyNext == InitReply

SpecReply == ReplyInit /\ [][ReplyNext]_vars

-----------------------------------------------------------------------------
(* ComposeWidget._compose_references *)

\* the number of entries of the parent's references
MaxRefs == 3

\* str.strip() over strings whose only whitespace is the space
RECURSIVE LStrip(_)
LStrip(str) ==
    IF str # <<>> /\ Head(str) = " " THEN LStrip(Tail(str)) ELSE str

RECURSIVE RStrip(_)
RStrip(str) ==
    IF str # <<>> /\ str[Len(str)] = " " THEN RStrip(SubSeq(str, 1, Len(str) - 1))
    ELSE str

Strip(str) == RStrip(LStrip(str))

\* a chain that keeps every non-empty reference, repeated or not
ChainLoopNoDedup(refs, i, acc) ==
    SelectSeq([k \in DOMAIN refs |-> Strip(refs[k])], LAMBDA r : r # <<>>)

\* _compose_references' loop over reply_to.references from the i-th on: acc is
\* chain, and seen is the set of its elements
RECURSIVE ChainLoop(_, _, _)
ChainLoop(refs, i, acc) ==
    IF i > Len(refs) THEN acc
    ELSE LET clean_ref == Strip(refs[i])
         IN  IF clean_ref # <<>> /\ clean_ref \notin SeqToSet(acc)
             THEN ChainLoop(refs, i + 1, Append(acc, clean_ref))
             ELSE ChainLoop(refs, i + 1, acc)

\* _compose_references(reply_to): chain and the string returned
ComposeReferences(msg) ==
    LET refs == ChainLoop(msg.references, 1, <<>>)
        parent_msgid == Strip(msg.msgid)
        full == IF parent_msgid # <<>> /\ parent_msgid \notin SeqToSet(refs)
                THEN Append(refs, parent_msgid) ELSE refs
    IN  IF msg.msgid = <<>> THEN [chain |-> <<>>, header |-> <<>>]
        ELSE [chain |-> full, header |-> Join(full, <<" ">>)]

\* message-ids as strings of characters: empty, blank, plain and padded ones
MsgIds == { <<>>, <<" ">>, <<"a">>, <<"b">>, <<"c">>, <<" ", "a">>, <<"b", " ">> }

ReferencesInit ==
    /\ \E msgid \in MsgIds, references \in UNION {[1..n -> MsgIds] : n \in 0..MaxRefs} :
          reply_to = [NoMessage EXCEPT !.msgid = msgid, !.references = references]
    /\ chain = <<>>
    /\ references_header = <<>>
    /\ reply_all = FALSE
    /\ to_input = <<>>
    /\ cc_list = <<>>
    /\ cc_input = <<>>
    /\ attachments = <<>>
    /\ forward_dir = {}
    /\ extracted = <<>>
    /\ self_attachments = <<>>
    /\ MuIdle
    /\ UiIdle
    /\ FindIdle
    /\ pc = "start"
    /\ RestIdle

\* the call _compose_references(self.reply_to) of a reply being sent
CallComposeReferences ==
    /\ pc = "start"
    /\ LET r == ComposeReferences(reply_to)
       IN  /\ chain' = r.chain
           /\ references_header' = r.header
    /\ pc' = "done"
    /\ UNCHANGED <<attachments, forward_dir, extracted, self_attachments, reply_to,
                   reply_all, to_input, cc_list, cc_input, muVars, uiVars, findVars, restVars>>

ReferencesNext == CallComposeReferences

SpecReferences == ReferencesInit /\ [][ReferencesNext]_vars

-----------------------------------------------------------------------------
(* MuInterface.find, _compute_thread_levels and find_thread *)

\* the number of messages `mu find` prints
MaxResults == 2

\* the cap of _compute_thread_levels
LevelCap == 10

\* the length of a long reference chain
ChainLen == 11

Min(a, b) == IF a < b THEN a ELSE b

\* the message-ids of the messages mu prints; "" is a message without one
ThreadIds == {"", "a", "b"}

\* the references of the messages mu prints
ThreadRefs ==
    { <<>>, <<"a">>, <<"b", "a">>, <<"a", "a">>, <<"", "c">>,
      [i \in 1..ChainLen |-> "a"] }

\* the "thread-level" key of a message's JSON: absent (<<>>) or a number
JsonLevels == { <<>>, <<3>> }

\* EmailMessage.from_mu_json, for the fields that threading reads
FromMuJson(m) ==
    [msgid |-> m.msgid, references |-> m.references,
     thread_level |-> IF m.level = <<>> THEN 0 ELSE m.level[1]]

\* the set visible_msgids of _compute_thread_levels
VisibleMsgids(msgs) == {msgs[i].msgid : i \in DOMAIN msgs} \ {""}

\* the number of entries of refs that are in visible
RECURSIVE VisibleAncestors(_, _)
VisibleAncestors(refs, visible) ==
    IF refs = <<>> THEN 0
    ELSE (IF Head(refs) \in visible THEN 1 ELSE 0)
         + VisibleAncestors(Tail(refs), visible)

\* thread levels that are not capped
ComputeThreadLevelsUncapped(msgs) ==
    [i \in DOMAIN msgs |->
        [msgs[i] EXCEPT !.thread_level =
            VisibleAncestors(msgs[i].references, VisibleMsgids(msgs))]]

\* _compute_thread_levels(messages)
ComputeThreadLevels(msgs) ==
    [i \in DOMAIN msgs |->
        [msgs[i] EXCEPT !.thread_level =
            IF msgs[i].references = <<>> THEN 0
            ELSE Min(VisibleAncestors(msgs[i].references, VisibleMsgids(msgs)),
                     LevelCap)]]

\* find(query, threads=threads) when mu exits with returncode and prints output
FindResults(output, threads, returncode) ==
    LET parsed == [i \in DOMAIN output |-> FromMuJson(output[i])]
    IN  IF returncode # 0 THEN <<>>
        ELSE IF threads /\ parsed # <<>> THEN ComputeThreadLevels(parsed)
        ELSE parsed

\* find_thread(message): find(query, threads=True, include_related=True)
FindThread(output, returncode) == FindResults(output, TRUE, returncode)

JsonMessages ==
    [msgid : ThreadIds, references : ThreadRefs, level : JsonLevels]

FindInit ==
    /\ mu_output \in UNION {[1..n -> JsonMessages] : n \in 0..MaxResults}
    /\ find_args = [threads |-> FALSE, include_related |-> FALSE]
    /\ results = <<>>
    /\ MuIdle
    /\ UiIdle
    /\ ComposeIdle
    /\ pc = "start"
    /\ RestIdle

\* a call of find, with or without threading
CallFind ==
    /\ pc = "start"
    /\ \E threads \in BOOLEAN, returncode \in {0, 1} :
          /\ find_args' = [threads |-> threads, include_related |-> FALSE]
          /\ results' = FindResults(mu_output, threads, returncode)
    /\ pc' = "done"
    /\ UNCHANGED <<mu_output, muVars, uiVars, composeVars, restVars>>

\* a call of find_thread
CallFindThread ==
    /\ pc = "start"
    /\ \E returncode \in {0, 1} :
          /\ find_args' = [threads |-> TRUE, include_related |-> TRUE]
          /\ results' = FindThread(mu_output, returncode)
    /\ pc' = "done"
    /\ UNCHANGED <<mu_output, muVars, uiVars, composeVars, restVars>>

FindNext == CallFind \/ CallFindThread

SpecFind == FindInit /\ [][FindNext]_vars

-----------------------------------------------------------------------------
(* MuInterface.view: the walk over the MIME parts of the message *)

\* content types that start with "multipart/" and with "text/"
MultipartTypes == {"multipart/mixed", "multipart/alternative"}

TextTypes == {"text/plain", "text/html", "text/x-diff"}

\* a MIME part: disposition is the type of its Content-Disposition header ("" for
\* no header), filename what get_filename() gives ("" for None), payload its
\* decoded text, children its sub-parts (not empty iff is_multipart())
Part(content_type, disposition, filename, payload, children) ==
    [content_type |-> content_type, disposition |-> disposition,
     filename |-> filename, payload |-> payload, children |-> children]

\* `word in content_disposition`: the header holds its type and its filename
\* parameter, so the word is found as the type or inside the file name
InDisposition(word, part) ==
    /\ part.disposition # ""
    /\ \/ part.disposition = word
       \/ word = "attachment" /\ part.filename = "attachment.txt"

\* email_msg.walk(): the part, then the walks of its sub-parts in order
RECURSIVE Walk(_, _)
RECURSIVE WalkAll(_, _, _)
Walk(tree, n) == <<n>> \o WalkAll(tree, tree[n].children, 1)

WalkAll(tree, kids, i) ==
    IF i > Len(kids) THEN <<>>
    ELSE Walk(tree, kids[i]) \o WalkAll(tree, kids, i + 1)

\* is_attachment or is_inline_media or has_filename_not_text
IsAttachmentPart(part) ==
    LET is_attachment == InDisposition("attachment", part)
        is_inline_media == /\ InDisposition("inline", part)
                           /\ part.filename # ""
                           /\ part.content_type \notin TextTypes
        has_filename_not_text == /\ part.filename # ""
                                 /\ part.content_type \notin {"text/plain", "text/html"}
    IN  is_attachment \/ is_inline_media \/ has_filename_not_text

\* a classification that looks at the content type before the disposition
ClassifyTextFirst(part, part_index, acc) ==
    IF part.content_type = "text/plain" /\ part.payload # <<>>
    THEN [acc EXCEPT !.body_txt = IF @ # <<>> THEN @ \o <<"\n">> \o part.payload
                                  ELSE part.payload]
    ELSE IF IsAttachmentPart(part)
    THEN [acc EXCEPT !.attachments = Append(@,
            [filename |-> IF part.filename # "" THEN part.filename ELSE "attachment",
             content_type |-> part.content_type, part_index |-> part_index,
             inline |-> InDisposition("inline", part)])]
    ELSE acc

\* the body of view()'s loop for a part that is no multipart container: the
\* attachment entry appended, or the text added to body_txt or body_html
Classify(part, part_index, acc) ==
    IF IsAttachmentPart(part)
    THEN [acc EXCEPT !.attachments = Append(@,
            [filename |-> IF part.filename # "" THEN part.filename ELSE "attachment",
             content_type |-> part.content_type, part_index |-> part_index,
             inline |-> InDisposition("inline", part)])]
    ELSE IF part.content_type = "text/plain"
    THEN IF part.payload = <<>> THEN acc
         ELSE [acc EXCEPT !.body_txt = IF @ # <<>> THEN @ \o <<"\n">> \o part.payload
                                       ELSE part.payload]
    ELSE IF part.content_type = "text/html"
    THEN IF part.payload = <<>> THEN acc
         ELSE [acc EXCEPT !.body_html = @ \o part.payload]
    ELSE acc

\* a loop in which the multipart containers consume an index too
RECURSIVE PartsLoopCountAll(_, _, _, _, _)
PartsLoopCountAll(tree, order, i, part_index, acc) ==
    IF i > Len(order) THEN acc
    ELSE IF tree[order[i]].content_type \in MultipartTypes
    THEN PartsLoopCountAll(tree, order, i + 1, part_index + 1, acc)
    ELSE PartsLoopCountAll(tree, order, i + 1, part_index + 1,
                           Classify(tree[order[i]], part_index + 1, acc))

\* view()'s loop over email_msg.walk() from the i-th part of the walk on, with
\* the part_index reached so far
RECURSIVE PartsLoop(_, _, _, _, _)
PartsLoop(tree, order, i, part_index, acc) ==
    IF i > Len(order) THEN acc
    ELSE IF tree[order[i]].content_type \in MultipartTypes
    THEN PartsLoop(tree, order, i + 1, part_index, acc)
    ELSE PartsLoop(tree, order, i + 1, part_index + 1,
                   Classify(tree[order[i]], part_index + 1, acc))

\* view(), from `msg.attachments = []` to the bodies: the loop over the parts of
\* a multipart message, or the one body of a message that is not multipart
ParseParts(tree) ==
    IF tree[1].children # <<>>
    THEN PartsLoop(tree, Walk(tree, 1), 1, 0, NoParsed)
    ELSE IF tree[1].content_type = "text/html"
    THEN [NoParsed EXCEPT !.body_html = tree[1].payload]
    ELSE [NoParsed EXCEPT !.body_txt = tree[1].payload]

\* the parts without sub-parts that the sample messages are made of
LeafParts ==
    { Part("text/plain", "", "", <<"x">>, <<>>),
      Part("text/plain", "", "", <<"y", "\n">>, <<>>),
      Part("text/plain", "", "", <<>>, <<>>),
      Part("text/html", "", "", <<"h">>, <<>>),
      Part("image/png", "attachment", "f.png", <<"p">>, <<>>),
      Part("image/png", "inline", "f.png", <<"p">>, <<>>),
      Part("image/png", "", "f.png", <<"p">>, <<>>),
      Part("image/png", "", "", <<"p">>, <<>>),
      Part("text/plain", "attachment", "", <<"x">>, <<>>),
      Part("text/plain", "inline", "f.txt", <<"x">>, <<>>),
      Part("text/plain", "inline", "attachment.txt", <<"x">>, <<>>),
      Part("text/x-diff", "inline", "f.diff", <<"d">>, <<>>) }

\* the content types of the parts that have sub-parts
ContainerTypes == {"multipart/alternative", "message/rfc822"}

\* the shapes of the sample messages: the sub-parts of each part, part 1 being
\* the message itself
Shapes ==
    { << <<>> >>,
      << <<2, 3>>, <<>>, <<>> >>,
      << <<3, 2>>, <<>>, <<4>>, <<>> >>,
      << <<2, 4>>, <<5, 3>>, <<>>, <<>>, <<>> >>,
      << <<4>>, <<>>, <<5>>, <<3, 2>>, <<>> >> }

\* the messages of a shape: the message itself is multipart/mixed when it has
\* sub-parts, the other containers and the parts without sub-parts are any
Messages(shape) ==
    { [n \in DOMAIN shape |->
          IF shape[n] = <<>> THEN leaf[n]
          ELSE Part(IF n = 1 THEN "multipart/mixed" ELSE ctype[n], "", "", <<>>,
                    shape[n])] :
      leaf \in [{n \in DOMAIN shape : shape[n] = <<>>} -> LeafParts],
      ctype \in [{n \in DOMAIN shape : shape[n] # <<>>} -> ContainerTypes] }

PartsInit ==
    /\ \E shape \in Shapes : email_msg \in Messages(shape)
    /\ view_msg = NoParsed
    /\ MuIdle
    /\ UiIdle
    /\ ComposeIdle
    /\ FindIdle
    /\ AddressIdle
    /\ OutputIdle
    /\ AppIdle
    /\ LateIdle
    /\ pc = "start"

\* view() parses the message file
ViewParts ==
    /\ pc = "start"
    /\ view_msg' = ParseParts(email_msg)
    /\ pc' = "done"
    /\ UNCHANGED <<email_msg, muVars, uiVars, composeVars, findVars, addressVars,
                   outputVars, appVars, lateVars>>

PartsNext == ViewParts

SpecParts == PartsInit /\ [][PartsNext]_vars

-----------------------------------------------------------------------------
(* EmailAddress.from_mu on the text that __str__ gives *)

MaxNameLen == 3

\* the characters of a text: its elements, an empty element holding none
CharsOf(text) ==
    LET NotEmpty(c) == c # ""
    IN  SelectSeq(text, NotEmpty)

\* str.replace(old, new)
RECURSIVE Replace(_, _, _)
Replace(str, old, new) ==
    IF Len(str) < Len(old) THEN str
    ELSE IF SubSeq(str, 1, Len(old)) = old
    THEN new \o Replace(SubSeq(str, Len(old) + 1, Len(str)), old, new)
    ELSE <<Head(str)>> \o Replace(Tail(str), old, new)

\* EmailAddress.from_mu(data) for a string: re.match(r"(.+?)\s*<(.+)>", data)
\* takes the shortest name (of characters other than a newline) that blanks
\* and a "<" follow, and the longest email up to a ">"; the name is stripped,
\* loses its surrounding quotes and then its escapes; a string that does not
\* match is the email
FromMu(data) ==
    LET n == Len(data)
        Closes(lt) == {k \in (lt + 2)..n :
                          data[k] = ">" /\ \A p \in (lt + 1)..(k - 1) : data[p] # "\n"}
        Opens(i) == {lt \in (i + 1)..n :
                        /\ data[lt] = "<"
                        /\ \A p \in (i + 1)..(lt - 1) : data[p] \in {" ", "\t", "\n"}
                        /\ Closes(lt) # {}}
        Ends == {i \in 1..n : (\A p \in 1..i : data[p] # "\n") /\ Opens(i) # {}}
    IN  IF Ends = {} THEN [name |-> <<>>, email |-> data]
        ELSE LET i == CHOOSE i \in Ends : \A o \in Ends : i <= o
                 lt == CHOOSE lt \in Opens(i) : TRUE
                 gt == CHOOSE k \in Closes(lt) : \A o \in Closes(lt) : o <= k
                 name == Strip(SubSeq(data, 1, i))
             IN  [name |-> IF name # <<>> /\ Head(name) = "\"" /\ name[Len(name)] = "\""
                           THEN Replace(Replace(SubSeq(name, 2, Len(name) - 1),
                                                <<"\\", "\"">>, <<"\"">>),
                                        <<"\\", "\\">>, <<"\\">>)
                           ELSE name,
                  email |-> Strip(SubSeq(data, lt + 1, gt - 1))]

\* the characters of the sample names: a letter, a blank, a comma, a double
\* quote and a backslash
NameChars == {"a", " ", ",", "\"", "\\"}

\* the sample addresses: any name of these characters, with an email or none
SampleAddresses ==
    [name : UNION {[1..n -> NameChars] : n \in 0..MaxNameLen}, email : {"e", ""}]

AddressInit ==
    /\ address \in SampleAddresses
    /\ address_text = <<>>
    /\ parsed_address = NoAddress
    /\ MuIdle
    /\ UiIdle
    /\ ComposeIdle
    /\ FindIdle
    /\ MimeIdle
    /\ OutputIdle
    /\ AppIdle
    /\ LateIdle
    /\ pc = "start"

\* str(address)
FormatAddress ==
    /\ pc = "start"
    /\ address_text' = CharsOf(Str(address))
    /\ pc' = "text"
    /\ UNCHANGED <<address, parsed_address, muVars, uiVars, composeVars, findVars,
                   mimeVars, outputVars, appVars, lateVars>>

\* EmailAddress.from_mu(text)
ParseAddress ==
    /\ pc = "text"
    /\ parsed_address' = FromMu(address_text)
    /\ pc' = "done"
    /\ UNCHANGED <<address, address_text, muVars, uiVars, composeVars, findVars,
                   mimeVars, outputVars, appVars, lateVars>>

AddressNext == FormatAddress \/ ParseAddress

SpecAddress == AddressInit /\ [][AddressNext]_vars

-----------------------------------------------------------------------------
(* MuInterface.find on what the indexer printed *)

MaxLines == 3

\* the text mu prints is a sequence of lines and a line a sequence of tokens: a
\* bracket, a comma, a JSON object holding a message ("{}"), another JSON
\* value ("0") or text that is no JSON ("oops"); blanks are not kept
Tok(kind) == [kind |-> kind, msg |-> <<>>]

Obj(m) == [kind |-> "{}", msg |-> <<m>>]

\* the JSON value that starts at the i-th token of t and the place after it: a
\* dict, a list of values or another value
RECURSIVE ParseValue(_, _)
RECURSIVE ParseItems(_, _, _)
ParseValue(t, i) ==
    LET fail == [ok |-> FALSE, val |-> [type |-> "none", msg |-> <<>>, items |-> <<>>],
                 next |-> i]
    IN  IF i > Len(t) THEN fail
        ELSE IF t[i].kind = "{}"
        THEN [ok |-> TRUE, val |-> [type |-> "dict", msg |-> t[i].msg, items |-> <<>>],
              next |-> i + 1]
        ELSE IF t[i].kind = "0"
        THEN [ok |-> TRUE, val |-> [type |-> "int", msg |-> <<>>, items |-> <<>>],
              next |-> i + 1]
        ELSE IF t[i].kind = "["
        THEN IF i + 1 <= Len(t) /\ t[i + 1].kind = "]"
             THEN [ok |-> TRUE, val |-> [type |-> "list", msg |-> <<>>, items |-> <<>>],
                   next |-> i + 2]
             ELSE ParseItems(t, i + 1, <<>>)
        ELSE fail

\* the rest of a list after its opening bracket and the items read so far
ParseItems(t, i, items) ==
    LET v == ParseValue(t, i)
        fail == [ok |-> FALSE, val |-> [type |-> "none", msg |-> <<>>, items |-> <<>>],
                 next |-> i]
    IN  IF ~v.ok \/ v.next > Len(t) THEN fail
        ELSE IF t[v.next].kind = "]"
        THEN [ok |-> TRUE,
              val |-> [type |-> "list", msg |-> <<>>, items |-> Append(items, v.val)],
              next |-> v.next + 1]
        ELSE IF t[v.next].kind = ","
        THEN ParseItems(t, v.next + 1, Append(items, v.val))
        ELSE fail

\* json.loads(text): the one value the tokens make, or JSONDecodeError (~ok)
JsonLoads(t) ==
    LET v == ParseValue(t, 1)
    IN  [ok |-> v.ok /\ v.next = Len(t) + 1, val |-> v.val]

\* the tokens of the whole text
RECURSIVE Tokens(_)
Tokens(lines) ==
    IF lines = <<>> THEN <<>> ELSE Head(lines) \o Tokens(Tail(lines))

\* line.rstrip(',')
RECURSIVE RStripCommas(_)
RStripCommas(line) ==
    IF line # <<>> /\ line[Len(line)].kind = ","
    THEN RStripCommas(SubSeq(line, 1, Len(line) - 1))
    ELSE line

\* the fallback loop of find over the lines from the i-th on: a line that is
\* no JSON ends the loop with the messages read so far, a JSON value that is no
\* dict makes from_mu_json raise AttributeError, which nothing catches
RECURSIVE LinesLoop(_, _, _)
LinesLoop(lines, i, msgs) ==
    IF i > Len(lines) THEN [raised |-> FALSE, messages |-> msgs]
    ELSE IF lines[i] = <<>> \/ lines[i] \in {<<Tok("[")>>, <<Tok("]")>>, <<Tok(",")>>}
    THEN LinesLoop(lines, i + 1, msgs)
    ELSE LET data == JsonLoads(RStripCommas(lines[i]))
         IN  IF ~data.ok THEN [raised |-> FALSE, messages |-> msgs]
             ELSE IF data.val.type # "dict" THEN [raised |-> TRUE, messages |-> <<>>]
             ELSE LinesLoop(lines, i + 1, Append(msgs, FromMuJson(data.val.msg[1])))

\* a find that takes a failed mu for an empty result only when stderr says so
FindOutputNoMatches(result, threads) ==
    IF result.returncode # 0 /\ result.stderr = "no matches"
    THEN [threads |-> threads, raised |-> FALSE, messages |-> <<>>]
    ELSE LET r == LinesLoop(result.stdout, 1, <<>>)
         IN  [threads |-> threads, raised |-> r.raised, messages |-> r.messages]

\* find(query, threads=threads) from the result of _run_mu on: the exit code,
\* json.loads of the whole output, the fallback, the thread levels
FindOutput(result, threads) ==
    IF result.returncode # 0
    THEN [threads |-> threads, raised |-> FALSE, messages |-> <<>>]
    ELSE LET data == JsonLoads(Tokens(result.stdout))
             items == data.val.items
             r == IF ~data.ok THEN LinesLoop(result.stdout, 1, <<>>)
                  ELSE IF data.val.type = "list"
                  THEN IF \E k \in DOMAIN items : items[k].type # "dict"
                       THEN [raised |-> TRUE, messages |-> <<>>]
                       ELSE [raised |-> FALSE,
                             messages |-> [k \in DOMAIN items |->
                                              FromMuJson(items[k].msg[1])]]
                  ELSE IF data.val.type = "dict"
                  THEN [raised |-> FALSE, messages |-> <<FromMuJson(data.val.msg[1])>>]
                  ELSE [raised |-> FALSE, messages |-> <<>>]
         IN  [threads |-> threads, raised |-> r.raised,
              messages |-> IF threads /\ r.messages # <<>>
                           THEN ComputeThreadLevels(r.messages) ELSE r.messages]

\* the lines of the sample outputs: two messages a and b, b a reply to a
LineSamples ==
    LET a == Obj([msgid |-> "a", references |-> <<>>, level |-> <<>>])
        b == Obj([msgid |-> "b", references |-> <<"a">>, level |-> <<>>])
    IN  { <<>>, <<Tok("[")>>, <<Tok("]")>>, <<Tok(",")>>, <<a>>, <<b, Tok(",")>>,
          <<Tok("oops")>>, <<Tok("0")>>, <<Tok("["), a, Tok(","), b, Tok("]")>> }

OutputInit ==
    /\ mu_result \in [returncode : {0, 1, 4},
                      stdout : UNION {[1..n -> LineSamples] : n \in 0..MaxLines},
                      stderr : {"", "no matches"}]
    /\ find_return = NoReturn
    /\ MuIdle
    /\ UiIdle
    /\ ComposeIdle
    /\ FindIdle
    /\ MimeIdle
    /\ AddressIdle
    /\ AppIdle
    /\ LateIdle
    /\ pc = "start"

\* a call of find that gets mu_result from _run_mu
CallFindOutput ==
    /\ pc = "start"
    /\ \E threads \in BOOLEAN : find_return' = FindOutput(mu_result, threads)
    /\ pc' = "done"
    /\ UNCHANGED <<mu_result, muVars, uiVars, composeVars, findVars, mimeVars,
                   addressVars, appVars, lateVars>>

OutputNext == CallFindOutput

SpecOutput == OutputInit /\ [][OutputNext]_vars

-----------------------------------------------------------------------------
(* BorApp: the tabs and Ctrl+Q *)

MaxTabs == 3

\* the widgets a pane is opened with; tab n stands for the id "tab-n"
WidgetKinds == {"compose", "message", "attachments", "sync"}

\* _ordered_tab_ids(): tab-0, then the ids of _tab_order that are in _tabs
OrderedTabIds ==
    LET InTabs(id) == id \in DOMAIN _tabs
    IN  <<0>> \o SelectSeq(_tab_order, InTabs)

\* an application that never takes the active tab for a compose tab
IsComposeActiveNever == FALSE

\* _is_compose_active(): the active tab is not tab-0, is in _tabs and its pane
\* holds a ComposeWidget
IsComposeActive ==
    IF active = 0 THEN FALSE
    ELSE IF active \notin DOMAIN _tabs THEN FALSE
    ELSE _tabs[active] = "compose"

\* a tab id that is the lowest number no open tab has
NextTabIdReused == CHOOSE n \in 1..(MaxTabs + 1) : n \notin DOMAIN _tabs

\* self._tab_counter += 1; tab_id = f"tab-{self._tab_counter}"
NextTabId == _tab_counter + 1

AppInit ==
    /\ AppIdle
    /\ MuIdle
    /\ UiIdle
    /\ ComposeIdle
    /\ FindIdle
    /\ MimeIdle
    /\ AddressIdle
    /\ OutputIdle
    /\ LateIdle
    /\ pc = "mount"

\* add_tab(title, widget, replace_id), as open_compose, open_message,
\* open_attachments and open_sync call it; replace_id 0 is None or tab-0,
\* and it may be the id of a tab that is closed
AddTab ==
    /\ ~exited
    /\ _tab_counter < MaxTabs
    /\ \E kind \in WidgetKinds, replace_id \in 0.._tab_counter :
          LET tab_id == NextTabId
              replaced == replace_id # 0 /\ replace_id \in DOMAIN _tabs
              kept == IF replaced THEN DOMAIN _tabs \ {replace_id} ELSE DOMAIN _tabs
              in_order == replaced /\ \E i \in DOMAIN _tab_order : _tab_order[i] = replace_id
              replace_index == CHOOSE i \in DOMAIN _tab_order : _tab_order[i] = replace_id
          IN  /\ _tab_counter' = tab_id
              /\ _tabs' = [id \in kept \cup {tab_id} |->
                              IF id = tab_id THEN kind ELSE _tabs[id]]
              /\ _tab_order' = IF in_order
                               THEN [_tab_order EXCEPT ![replace_index] = tab_id]
                               ELSE Append(_tab_order, tab_id)
              /\ active' = tab_id
    /\ pc' = "add_tab"
    /\ UNCHANGED <<exited, muVars, uiVars, composeVars, findVars, mimeVars,
                   addressVars, outputVars, lateVars>>

\* close_tab(tab_id) for a tab of _tabs
CloseTab ==
    /\ ~exited
    /\ \E tab_id \in DOMAIN _tabs :
          LET NotClosed(id) == id # tab_id
          IN  /\ _tabs' = [id \in DOMAIN _tabs \ {tab_id} |-> _tabs[id]]
              /\ _tab_order' = SelectSeq(_tab_order, NotClosed)
    /\ active' = 0
    /\ pc' = "close_tab"
    /\ UNCHANGED <<_tab_counter, exited, muVars, uiVars, composeVars, findVars,
                   mimeVars, addressVars, outputVars, lateVars>>

\* action_switch_tab(index): Alt+digit
SwitchTab ==
    /\ ~exited
    /\ \E index \in 0..MaxTabs :
          active' = IF index < Len(OrderedTabIds) THEN OrderedTabIds[index + 1]
                    ELSE active
    /\ pc' = "switch_tab"
    /\ UNCHANGED <<_tabs, _tab_order, _tab_counter, exited, muVars, uiVars,
                   composeVars, findVars, mimeVars, addressVars, outputVars, lateVars>>

\* action_prev_tab(): Ctrl+PageUp
PrevTab ==
    /\ ~exited
    /\ LET tab_ids == OrderedTabIds
           cur == CHOOSE i \in DOMAIN tab_ids : tab_ids[i] = active
       IN  active' = IF \E i \in DOMAIN tab_ids : tab_ids[i] = active
                     THEN tab_ids[((cur - 1 + Len(tab_ids) - 1) % Len(tab_ids)) + 1]
                     ELSE active
    /\ pc' = "prev_tab"
    /\ UNCHANGED <<_tabs, _tab_order, _tab_counter, exited, muVars, uiVars,
                   composeVars, findVars, mimeVars, addressVars, outputVars, lateVars>>

\* action_next_tab(): Ctrl+PageDown
NextTab ==
    /\ ~exited
    /\ LET tab_ids == OrderedTabIds
           cur == CHOOSE i \in DOMAIN tab_ids : tab_ids[i] = active
       IN  active' = IF \E i \in DOMAIN tab_ids : tab_ids[i] = active
                     THEN tab_ids[(cur % Len(tab_ids)) + 1]
                     ELSE active
    /\ pc' = "next_tab"
    /\ UNCHANGED <<_tabs, _tab_order, _tab_counter, exited, muVars, uiVars,
                   composeVars, findVars, mimeVars, addressVars, outputVars, lateVars>>

\* Ctrl+Q: the binding has priority, so action_quit runs before the focused
\* widget sees the key; it returns when a compose tab is active and calls
\* exit() otherwise
ActionQuit ==
    /\ ~exited
    /\ exited' = ~IsComposeActive
    /\ pc' = "ctrl+q"
    /\ UNCHANGED <<_tabs, _tab_order, _tab_counter, active, muVars, uiVars,
                   composeVars, findVars, mimeVars, addressVars, outputVars, lateVars>>

AppNext == AddTab \/ CloseTab \/ SwitchTab \/ PrevTab \/ NextTab \/ ActionQuit

SpecApp == AppInit /\ [][AppNext]_vars

-----------------------------------------------------------------------------
(* The tree prefixes of the message index: _compute_thread_prefixes.  A     *)
(* prefix is the sequence of its glyphs.                                    *)

\* the rows of the lists considered, and their deepest thread level
MaxRows == 4
MaxLevel == 3

\* the four glyphs: "└", "├", "│" and " "
LastBranch == "last"
MidBranch == "mid"
Vertical == "vertical"
Blank == "blank"

\* no row of the level lvl from row j on
IsLastAnyLater(levels, j, lvl) ==
    \A k \in j..Len(levels) : levels[k] # lvl

\* the loop over future_idx at the row's own level, from row j on: a lower
\* level ends it with is_last still True, the same level with is_last False
RECURSIVE IsLast(_, _, _)
IsLast(levels, j, lvl) ==
    IF j > Len(levels) THEN TRUE
    ELSE IF levels[j] < lvl THEN TRUE
    ELSE IF levels[j] = lvl THEN FALSE
    ELSE IsLast(levels, j + 1, lvl)

\* the loop over future_idx at an ancestor level, from row j on, with
\* has_continuation as it stands
RECURSIVE HasContinuation(_, _, _, _)
HasContinuation(levels, j, lvl, has_continuation) ==
    IF j > Len(levels) THEN has_continuation
    ELSE IF levels[j] < lvl THEN has_continuation
    ELSE IF levels[j] = lvl THEN TRUE
    ELSE HasContinuation(levels, j + 1, lvl, TRUE)

\* prefix_parts of the row i: one glyph for each lvl of 1..level
PrefixParts(levels, i) ==
    [lvl \in 1..levels[i] |->
        IF lvl = levels[i]
        THEN IF IsLast(levels, i + 1, lvl) THEN LastBranch ELSE MidBranch
        ELSE IF HasContinuation(levels, i + 1, lvl, FALSE) THEN Vertical ELSE Blank]

\* _compute_thread_prefixes(messages), the rows counted from 1
ComputeThreadPrefixes(levels) ==
    [i \in DOMAIN levels |-> IF levels[i] = 0 THEN <<>> ELSE PrefixParts(levels, i)]

LevelLists == UNION {[1..n -> 0..MaxLevel] : n \in 0..MaxRows}

PrefixInit ==
    /\ thread_levels \in LevelLists
    /\ thread_prefixes = <<>>
    /\ pc = "idle"
    /\ MuIdle
    /\ UiIdle
    /\ ComposeIdle
    /\ FindIdle
    /\ MimeIdle
    /\ AddressIdle
    /\ OutputIdle
    /\ AppIdle
    /\ CtrlIdle
    /\ StartIdle
    /\ SyncIdle

\* _refresh_table computes the prefixes of the list
RefreshPrefixes ==
    /\ pc = "idle"
    /\ thread_prefixes' = ComputeThreadPrefixes(thread_levels)
    /\ pc' = "done"
    /\ UNCHANGED <<thread_levels, muVars, uiVars, composeVars, findVars, mimeVars,
                   addressVars, outputVars, appVars, ctrlVars, startVars, syncVars>>

PrefixNext ==
    \/ RefreshPrefixes

SpecPrefix == PrefixInit /\ [][PrefixNext]_vars

-----------------------------------------------------------------------------
(* The Ctrl+L sequences of the compose tab's inputs: CtrlLMixin and the     *)
(* _on_key of AddressInput, SubjectInput and ComposeTextArea.               *)

\* the key events a run holds
MaxKeys == 3

\* the keys pressed: event.key
Keys == {"ctrl+l", "ctrl+q", "ctrl+c", "ctrl+v", "ctrl+x", "tab",
         "l", "d", "x", "t", "c", "b", "s", "e", "a", "L", "D", "z"}

\* event.key.lower()
Lower(key) ==
    CASE key = "L" -> "l"
      [] key = "D" -> "d"
      [] OTHER -> key

\* the command of the second key of a sequence
Command ==
    [k \in {"l", "d", "x", "t", "c", "b", "s", "e", "a"} |->
        CASE k = "l" -> "SendMessage"
          [] k = "d" -> "SaveDraft"
          [] k = "x" -> "CancelCompose"
          [] k = "t" -> "FocusTo"
          [] k = "c" -> "FocusCC"
          [] k = "b" -> "FocusBCC"
          [] k = "s" -> "FocusSubject"
          [] k = "e" -> "FocusEditor"
          [] k = "a" -> "AttachFile"]

\* handle_ctrl_l_key(event) of an input whose flag is pressed: what it
\* returns, the flag it leaves, the command it posts ("" for none) and whether
\* it called event.prevent_default() and event.stop()
HandleCtrlLKey(pressed, key) ==
    IF pressed
    THEN IF Lower(key) \in DOMAIN Command
         THEN [handled |-> TRUE, pressed |-> FALSE, post |-> Command[Lower(key)],
               stopped |-> TRUE]
         ELSE [handled |-> TRUE, pressed |-> FALSE, post |-> "", stopped |-> FALSE]
    ELSE IF key = "ctrl+l"
         THEN [handled |-> TRUE, pressed |-> TRUE, post |-> "", stopped |-> TRUE]
    ELSE IF key = "ctrl+q"
         THEN [handled |-> TRUE, pressed |-> FALSE, post |-> "", stopped |-> TRUE]
    ELSE [handled |-> FALSE, pressed |-> FALSE, post |-> "", stopped |-> FALSE]

\* screen.focus_next() from an input
FocusNext(w) ==
    CASE w = "to" -> "cc"
      [] w = "cc" -> "bcc"
      [] w = "bcc" -> "subject"
      [] w = "subject" -> "body"
      [] OTHER -> "to"

\* _on_key(event) of the input w: the clipboard keys come first and return,
\* then handle_ctrl_l_key, then the Tab key, then the base class's _on_key.
\* completes says whether Tab finds a completion (an alias in the body).
OnKey(w, key, completes) ==
    IF key \in {"ctrl+c", "ctrl+v", "ctrl+x"}
    THEN [pressed |-> _ctrl_l_pressed[w], post |-> "", outcome |-> "stopped", focus |-> w]
    ELSE LET h == HandleCtrlLKey(_ctrl_l_pressed[w], key)
         IN  IF h.handled
             THEN [pressed |-> h.pressed, post |-> h.post,
                   outcome |-> IF h.stopped THEN "stopped" ELSE "returned", focus |-> w]
             ELSE IF key = "tab" /\ completes
             THEN [pressed |-> h.pressed, post |-> "", outcome |-> "stopped", focus |-> w]
             ELSE IF key = "tab" /\ w # "body"
             THEN [pressed |-> h.pressed, post |-> "", outcome |-> "stopped",
                   focus |-> FocusNext(w)]
             ELSE [pressed |-> h.pressed, post |-> "", outcome |-> "super", focus |-> w]

CtrlInit ==
    /\ CtrlIdle
    /\ pc = "idle"
    /\ MuIdle
    /\ UiIdle
    /\ ComposeIdle
    /\ FindIdle
    /\ MimeIdle
    /\ AddressIdle
    /\ OutputIdle
    /\ AppIdle
    /\ PrefixIdle
    /\ StartIdle
    /\ SyncIdle

\* a key event reaches the focused input
KeyPress ==
    /\ nkeys < MaxKeys
    /\ focused \in Inputs
    /\ \E key \in Keys, completes \in BOOLEAN :
          LET r == OnKey(focused, key, completes)
          IN  /\ (completes => key = "tab" /\ focused # "subject")
              /\ _ctrl_l_pressed' = [_ctrl_l_pressed EXCEPT ![focused] = r.pressed]
              /\ posted' = IF r.post = "" THEN posted ELSE Append(posted, r.post)
              /\ focused' = r.focus
              /\ key_event' = [key |-> key, widget |-> focused, outcome |-> r.outcome]
    /\ nkeys' = nkeys + 1
    /\ UNCHANGED <<delivered, pc, muVars, uiVars, composeVars, findVars, mimeVars,
                   addressVars, outputVars, appVars, prefixVars, startVars, syncVars>>

\* the ComposeWidget handles the next command posted: on_focus_* give the
\* focus to an input, on_attach_file to the file path input, and the tab
\* closes on on_cancel_compose and when on_send_message or on_save_draft
\* succeed
HandleCommand ==
    /\ delivered < Len(posted)
    /\ focused # "closed"
    /\ LET cmd == posted[delivered + 1]
       IN  \E success \in BOOLEAN :
             focused' =
                CASE cmd = "FocusTo" -> "to"
                  [] cmd = "FocusCC" -> "cc"
                  [] cmd = "FocusBCC" -> "bcc"
                  [] cmd = "FocusSubject" -> "subject"
                  [] cmd = "FocusEditor" -> "body"
                  [] cmd = "AttachFile" -> "attachment-input"
                  [] cmd = "CancelCompose" -> "closed"
                  [] OTHER -> IF success THEN "closed" ELSE focused
    /\ delivered' = delivered + 1
    /\ UNCHANGED <<_ctrl_l_pressed, posted, key_event, nkeys, pc, muVars, uiVars,
                   composeVars, findVars, mimeVars, addressVars, outputVars, appVars,
                   prefixVars, startVars, syncVars>>

CtrlNext ==
    \/ KeyPress
    \/ HandleCommand

SpecCtrl == CtrlInit /\ [][CtrlNext]_vars

-----------------------------------------------------------------------------
(* The start of the address under the cursor of an address input:           *)
(* AddressInput._find_address_start.  Positions count from 0, as in the     *)
(* code; the character at position i is value[i + 1].                       *)

\* the length of the longest text
MaxText == 4

\* the characters of the texts: the quote, the comma, the backslash and a letter
TextChars == {"\"", ",", "\\", "a"}

\* the loop of _find_address_start from position i down to 0
RECURSIVE ScanBack(_, _, _, _)
ScanBack(txt, i, in_quotes, escape_next) ==
    IF i < 0 THEN 0
    ELSE LET char == txt[i + 1]
         IN  IF escape_next THEN ScanBack(txt, i - 1, in_quotes, FALSE)
             ELSE IF char = "\\" THEN ScanBack(txt, i - 1, in_quotes, TRUE)
             ELSE IF char = "\"" THEN ScanBack(txt, i - 1, ~in_quotes, FALSE)
             ELSE IF char = "," /\ ~in_quotes THEN i + 1
             ELSE ScanBack(txt, i - 1, in_quotes, FALSE)

\* _find_address_start(text, cursor_pos)
FindAddressStart(txt, cursor) == ScanBack(txt, cursor - 1, FALSE, FALSE)

Texts == UNION {[1..n -> TextChars] : n \in 0..MaxText}

StartInit ==
    /\ value \in Texts
    /\ cursor_pos \in 0..Len(value)
    /\ address_start = 0
    /\ pc = "idle"
    /\ MuIdle
    /\ UiIdle
    /\ ComposeIdle
    /\ FindIdle
    /\ MimeIdle
    /\ AddressIdle
    /\ OutputIdle
    /\ AppIdle
    /\ PrefixIdle
    /\ CtrlIdle
    /\ SyncIdle

\* the Tab key of an address input: start = self._find_address_start(value, cursor)
CallFindAddressStart ==
    /\ pc = "idle"
    /\ address_start' = FindAddressStart(value, cursor_pos)
    /\ pc' = "done"
    /\ UNCHANGED <<value, cursor_pos, muVars, uiVars, composeVars, findVars, mimeVars,
                   addressVars, outputVars, appVars, prefixVars, ctrlVars, syncVars>>

StartNext ==
    \/ CallFindAddressStart

SpecStart == StartInit /\ [][StartNext]_vars

-----------------------------------------------------------------------------
(* The synchronization tab: SyncWidget.run_sync, a worker that awaits the   *)
(* child process, and the _cancel_sync tasks that action_cancel and         *)
(* action_close create.  A step runs a coroutine from one await to the next. *)

\* the run_sync calls of a run, and the output lines read from one process
MaxRuns == 2
MaxSyncLines == 1

nonSyncVars == <<pc, muVars, uiVars, composeVars, findVars, mimeVars, addressVars,
                 outputVars, appVars, prefixVars, ctrlVars, startVars>>

\* a run_sync that leaves running and _process as they are
FinallySkipped == [running |-> running, _process |-> _process]

\* the finally clause of run_sync
Finally == [running |-> FALSE, _process |-> "None"]

\* action_rerun's condition
RerunAllowed == ~running

\* run_sync leaves its try statement: the lines written on the way, then the
\* finally clause
EndRunSync(how, lines) ==
    /\ output_log' = lines
    /\ running' = Finally.running
    /\ _process' = Finally._process
    /\ worker' = "ended"
    /\ ended_how' = how

\* the output lines of the process that the log holds
IsOutputLine(l) == l = "line"

\* the returncode a process can exit with, given the signals it was sent
ExitCodes(signals) ==
    IF \E i \in DOMAIN signals : signals[i] = "kill" THEN {"-9"}
    ELSE IF signals # <<>> THEN {"-15", "0", "1"}
    ELSE {"0", "1"}

\* the next _cancel_sync task to create
FreeTask == CHOOSE c \in 1..MaxCancelTasks :
                /\ cancel_tasks[c] = "idle"
                /\ \A d \in 1..(c - 1) : cancel_tasks[d] # "idle"

HasFreeTask == \E c \in 1..MaxCancelTasks : cancel_tasks[c] = "idle"

SyncInit ==
    /\ SyncIdle
    /\ pc = "idle"
    /\ MuIdle
    /\ UiIdle
    /\ ComposeIdle
    /\ FindIdle
    /\ MimeIdle
    /\ AddressIdle
    /\ OutputIdle
    /\ AppIdle
    /\ PrefixIdle
    /\ CtrlIdle
    /\ StartIdle

\* on_mount: self.run_sync() creates the worker
OnMount ==
    /\ worker = "unmounted"
    /\ worker' = "scheduled"
    /\ nruns' = nruns + 1
    /\ UNCHANGED <<running, _process, exit_code, output_log, proc, ended_how,
                   cancel_tasks, tab_closed, nonSyncVars>>

\* run_sync up to its first await: shlex.split either raises, which ends the
\* run, or the worker awaits create_subprocess_exec
RunSyncStart ==
    /\ worker = "scheduled"
    /\ exit_code' = "None"
    /\ \E split_ok \in BOOLEAN :
          IF split_ok
          THEN /\ running' = TRUE
               /\ output_log' = <<>>
               /\ worker' = "spawn"
               /\ UNCHANGED <<_process, ended_how>>
          ELSE EndRunSync("error", <<"error">>)
    /\ UNCHANGED <<proc, cancel_tasks, tab_closed, nruns, nonSyncVars>>

\* create_subprocess_exec returns the process, or raises FileNotFoundError
\* or another error
SpawnDone ==
    /\ worker = "spawn"
    /\ \E outcome \in {"ok", "not found", "error"} :
          IF outcome = "ok"
          THEN /\ _process' = "Process"
               /\ proc' = [alive |-> TRUE, returncode |-> "None", signals |-> <<>>]
               /\ worker' = "read"
               /\ UNCHANGED <<running, output_log, ended_how>>
          ELSE /\ EndRunSync(outcome, Append(output_log, outcome))
               /\ UNCHANGED proc
    /\ UNCHANGED <<exit_code, cancel_tasks, tab_closed, nruns, nonSyncVars>>

\* readline gives a line of the living process, which goes to the log
ReadLine ==
    /\ worker = "read"
    /\ proc.alive
    /\ Len(SelectSeq(output_log, IsOutputLine)) < MaxSyncLines
    /\ output_log' = Append(output_log, "line")
    /\ UNCHANGED <<running, _process, exit_code, proc, worker, ended_how, cancel_tasks,
                   tab_closed, nruns, nonSyncVars>>

\* the child process exits, by itself or by a signal
ProcessExits ==
    /\ proc.alive
    /\ \E rc \in ExitCodes(proc.signals) :
          proc' = [proc EXCEPT !.alive = FALSE, !.returncode = rc]
    /\ UNCHANGED <<running, _process, exit_code, output_log, worker, ended_how,
                   cancel_tasks, tab_closed, nruns, nonSyncVars>>

\* readline gives no line as the process has exited: wait() returns, and the
\* exit code decides; after exit code 0, mu.index() raises or the worker
\* awaits the refresh of the message index
ReadEof ==
    /\ worker = "read"
    /\ ~proc.alive
    /\ exit_code' = proc.returncode
    /\ IF proc.returncode = "0"
       THEN \E index_ok \in BOOLEAN :
              IF index_ok
              THEN /\ output_log' = output_log \o <<"completed", "index updated">>
                   /\ worker' = "refresh"
                   /\ UNCHANGED <<running, _process, ended_how>>
              ELSE EndRunSync("error", output_log \o <<"completed", "error">>)
       ELSE EndRunSync("failed", Append(output_log, "failed"))
    /\ UNCHANGED <<proc, cancel_tasks, tab_closed, nruns, nonSyncVars>>

\* the refresh is over: the tab closes and run_sync ends
RefreshDone ==
    /\ worker = "refresh"
    /\ tab_closed' = TRUE
    /\ EndRunSync("completed", output_log)
    /\ UNCHANGED <<exit_code, proc, cancel_tasks, nruns, nonSyncVars>>

\* action_cancel, the ctrl+c key
ActionCancel ==
    /\ ~tab_closed
    /\ running
    /\ HasFreeTask
    /\ cancel_tasks' = [cancel_tasks EXCEPT ![FreeTask] = "scheduled"]
    /\ UNCHANGED <<running, _process, exit_code, output_log, proc, worker, ended_how,
                   tab_closed, nruns, nonSyncVars>>

\* action_close, the x key
ActionClose ==
    /\ ~tab_closed
    /\ worker # "unmounted"
    /\ running => HasFreeTask
    /\ cancel_tasks' = IF running THEN [cancel_tasks EXCEPT ![FreeTask] = "scheduled"]
                       ELSE cancel_tasks
    /\ tab_closed' = TRUE
    /\ UNCHANGED <<running, _process, exit_code, output_log, proc, worker, ended_how,
                   nruns, nonSyncVars>>

\* action_rerun, the r key: run_sync is exclusive, so a worker that has not
\* started gives way to the new one
ActionRerun ==
    /\ ~tab_closed
    /\ worker # "unmounted"
    /\ nruns < MaxRuns
    /\ RerunAllowed
    /\ worker' = "scheduled"
    /\ nruns' = nruns + 1
    /\ UNCHANGED <<running, _process, exit_code, output_log, proc, ended_how,
                   cancel_tasks, tab_closed, nonSyncVars>>

\* _cancel_sync up to its await: nothing when there is no process or no run;
\* else terminate(), which raises for a process that is gone, and the sleep
CancelStart ==
    \E c \in 1..MaxCancelTasks :
        /\ cancel_tasks[c] = "scheduled"
        /\ IF _process # "None" /\ running
           THEN IF proc.alive
                THEN /\ proc' = [proc EXCEPT !.signals = Append(@, "terminate")]
                     /\ cancel_tasks' = [cancel_tasks EXCEPT ![c] = "sleeping"]
                ELSE /\ \E raises \in BOOLEAN :
                          cancel_tasks' = [cancel_tasks EXCEPT ![c] =
                                              IF raises THEN "done" ELSE "sleeping"]
                     /\ UNCHANGED proc
           ELSE /\ cancel_tasks' = [cancel_tasks EXCEPT ![c] = "done"]
                /\ UNCHANGED proc
        /\ UNCHANGED <<running, _process, exit_code, output_log, worker, ended_how,
                       tab_closed, nruns, nonSyncVars>>

\* _cancel_sync after the sleep: self._process.returncode raises when
\* _process is None, and the except clause passes; else kill() for a process
\* with no returncode, and the line in the log
CancelWake ==
    \E c \in 1..MaxCancelTasks :
        /\ cancel_tasks[c] = "sleeping"
        /\ cancel_tasks' = [cancel_tasks EXCEPT ![c] = "done"]
        /\ IF _process = "None"
           THEN UNCHANGED <<proc, output_log>>
           ELSE /\ proc' = IF proc.returncode = "None"
                           THEN [proc EXCEPT !.signals = Append(@, "kill")]
                           ELSE proc
                /\ output_log' = Append(output_log, "cancelled")
        /\ UNCHANGED <<running, _process, exit_code, worker, ended_how, tab_closed,
                       nruns, nonSyncVars>>

SyncNext ==
    \/ OnMount
    \/ RunSyncStart
    \/ SpawnDone
    \/ ReadLine
    \/ ProcessExits
    \/ ReadEof
    \/ RefreshDone
    \/ ActionCancel
    \/ ActionClose
    \/ ActionRerun
    \/ CancelStart
    \/ CancelWake

SpecSync == SyncInit /\ [][SyncNext]_vars

-----------------------------------------------------------------------------
(* Claims about MuInterface, checked under Spec.  A step of a call is one  *)
(* in which nops grows; last is the call before the step and last' the     *)
(* call the step makes.                                                    *)

Called(op) == nops' = nops + 1 /\ last'.op = op

FrameOfMu == files' = files /\ dirs' = dirs /\ idx' = idx

\* C1 (as amended): undo_move on an empty history returns failure and changes
\* nothing; undo_move right after a successful move(path, folder), with no
\* filesystem fault, returns success and the file is again at the original path,
\* and no longer at the moved-to path when that is another path than the
\* original (a move to the folder the file is already in renames it to itself).
C1_UndoRestores ==
    [][Called("undo_move") =>
        /\ _move_history = <<>> =>
              ~last'.ok /\ FrameOfMu /\ _move_history' = _move_history
        /\ (last.op = "move" /\ last.ok /\ last'.fault = "none") =>
              /\ last'.ok
              /\ last.path \in files'
              /\ last.ret # last.path => last.ret \notin files']_vars

\* C1 witness: the second call is an undo_move that succeeded, so the first was
\* a move, and the file is back at another path than the one it was moved to.
C1_Witness ==
    /\ nops = 2 /\ last.op = "undo_move" /\ last.ok
    /\ last.ret \in files /\ last.path \notin files

\* C1 as stated: after one successful move, undo_move returns success, the file
\* is at the original path and no longer at the moved-to path.
C1_Original ==
    [][Called("undo_move") =>
        /\ _move_history = <<>> =>
              ~last'.ok /\ FrameOfMu /\ _move_history' = _move_history
        /\ (last.op = "move" /\ last.ok /\ last'.fault = "none") =>
              /\ last'.ok
              /\ last.path \in files'
              /\ last.ret \notin files']_vars

\* C2: a flag delta applied a second time, to the path the first application
\* returned, renames the file to itself: it succeeds, returns the same path,
\* leaves the disk as it is and the flags in the file name are those the first
\* application gave.
C2_DeltaIdempotent ==
    [][(/\ Called("set_flag")
        /\ last.op = "set_flag" /\ last.ok
        /\ last'.path = last.ret /\ last'.delta = last.delta
        /\ last'.fault = "none") =>
            /\ last'.ok
            /\ last'.ret = last'.path
            /\ files' = files
            /\ ParseFlags(last'.ret) = ParseFlags(last.ret)]_vars

\* C2 witness: m1 starts without the flag F, so a second call that flags m1 at a
\* path holding F, in a behaviour without faults, follows a first that flagged it.
C2_Witness ==
    /\ nops = 2 /\ ~faulted
    /\ last.op = "set_flag" /\ last.delta = MarkFlagged /\ last.ok
    /\ last.path.base = "m1" /\ last.ret = last.path
    /\ "F" \in SeqToSet(last.ret.flags)

\* C5 (as amended): undo_move leaves the indexer database as it is; after a move
\* without faults and a successful undo_move the database still lists the
\* moved-to path, and does not list the original path when that is another path.
C5_UndoLeavesIndex ==
    [][Called("undo_move") =>
        /\ idx' = idx
        /\ (last.op = "move" /\ last.ok /\ last.fault = "none" /\ last'.ok) =>
              /\ last.ret \in idx'
              /\ last.ret # last.path => last.path \notin idx']_vars

\* C5 witness: a file restored by undo_move that the database lists only at the
\* path it was moved to.
C5_Witness ==
    /\ nops = 2 /\ ~faulted /\ last.op = "undo_move" /\ last.ok
    /\ last.ret \in files /\ last.ret \notin idx
    /\ last.path \notin files /\ last.path \in idx

\* C5 as stated: after a move followed by undo_move the database lists the
\* moved-to path and not the restored original path.
C5_Original ==
    [][Called("undo_move") =>
        /\ idx' = idx
        /\ (last.op = "move" /\ last.ok /\ last.fault = "none" /\ last'.ok) =>
              /\ last.ret \in idx'
              /\ last.path \notin idx']_vars

\* the largest capacity the calls of one behaviour can exceed
UndoCapacity == MaxOps - 1

-----------------------------------------------------------------------------
(* Claims about the widgets' records, checked under SpecUI. *)

\* C3: when the mark_read, mark_unread or mark_flagged call of a flag action
\* of the message index or of the message view returns the failure value, the
\* in-memory record of that message keeps its flags and its path.
C3_Original ==
    [][/\ uiLast'.op = "index_flag"
          => \A t \in uiLast'.failed : messages'[t] = messages[t]
       /\ uiLast'.op = "view_flag" /\ uiLast'.viewFailed
          => ViewRec' = ViewRec]_vars

\* C4: while every flag and move call made through the message index and the
\* message view has succeeded and no search is pending, every record of the
\* index's list has the path its file is at on disk.
C4_Original ==
    (allOk /\ ~pendingSearch) => \A i \in DOMAIN messages : messages[i].path \in files

-----------------------------------------------------------------------------
(* Claims about the compose widget, checked under SpecForward and SpecReply. *)

\* the positions of the attachments that carry a part index
Indexed == {i \in DOMAIN attachments : attachments[i].part_index # 0}

\* C7: once a forward is initialised, the compose widget holds as many
\* attachment files as the source message has attachments with a part index,
\* and each such attachment's content is in one of those files.
C7_Original ==
    pc = "done" =>
        /\ Len(self_attachments) = Cardinality(Indexed)
        /\ \A i \in Indexed :
              \E k \in DOMAIN self_attachments :
                  [name |-> self_attachments[k],
                   content |-> attachments[i].part_index] \in forward_dir

\* the address a reply goes to: Reply-To if present, else From
ReplyAddress == IF reply_to.reply_to_addr # <<>> THEN reply_to.reply_to_addr[1]
                ELSE reply_to.from_addr

\* the Cc of a reply-all as the claim has it: the addresses of addrs from the
\* i-th on, in order, without the identity's address, without the addresses in
\* seen (at first the address placed in To), each address once
RECURSIVE CcByAddress(_, _, _)
CcByAddress(addrs, i, seen) ==
    IF i > Len(addrs) THEN <<>>
    ELSE IF addrs[i].email = IdentityEmail \/ addrs[i].email \in seen
    THEN CcByAddress(addrs, i + 1, seen)
    ELSE <<Str(addrs[i])>> \o CcByAddress(addrs, i + 1, seen \cup {addrs[i].email})

\* C8: after a reply-all is initialised, To is the original Reply-To, or else
\* the original From, and Cc lists the original To then Cc addresses in order,
\* each address once, without the identity's address and without the address
\* placed in To.
C8_Original ==
    (pc = "done" /\ reply_all) =>
        /\ to_input = Str(ReplyAddress)
        /\ cc_list = CcByAddress(reply_to.to_addrs \o reply_to.cc_addrs, 1,
                                 {ReplyAddress.email})

-----------------------------------------------------------------------------
(* Claims about _compose_references, checked under SpecReferences. *)

\* the entries of ids from the i-th on that no earlier entry equals
RECURSIVE FirstOccurrences(_, _)
FirstOccurrences(ids, i) ==
    IF i > Len(ids) THEN <<>>
    ELSE (IF \A j \in 1..(i - 1) : ids[j] # ids[i] THEN <<ids[i]>> ELSE <<>>)
         \o FirstOccurrences(ids, i + 1)

\* the number of entries of ids that equal id
Occurrences(ids, id) == Cardinality({k \in DOMAIN ids : ids[k] = id})

\* the parent's references stripped of surrounding blanks, the empty ones left out
CleanReferences ==
    SelectSeq([k \in DOMAIN reply_to.references |-> Strip(reply_to.references[k])],
              LAMBDA r : r # <<>>)

\* C9: for a parent whose message-id is not empty, _compose_references returns
\* the parent's stripped, non-empty references, each at its first occurrence,
\* followed by the parent's stripped message-id when it is not empty and not
\* among them, joined by single spaces; no id occurs twice and a non-blank
\* parent id occurs exactly once.  For a parent with an empty message-id it
\* returns the empty string.
C9_References ==
    pc = "done" =>
        LET id == Strip(reply_to.msgid)
        IN  IF reply_to.msgid = <<>>
            THEN chain = <<>> /\ references_header = <<>>
            ELSE /\ chain = FirstOccurrences(CleanReferences, 1)
                            \o (IF id # <<>> /\ Occurrences(CleanReferences, id) = 0
                                THEN <<id>> ELSE <<>>)
                 /\ references_header = Join(chain, <<" ">>)
                 /\ \A r \in SeqToSet(chain) : Occurrences(chain, r) = 1
                 /\ id # <<>> => Occurrences(chain, id) = 1

\* a parent with a repeated reference and a message-id that is not among its
\* references: the chain is the two distinct references and then the parent
C9_Witness ==
    /\ pc = "done"
    /\ reply_to.msgid = <<"c">>
    /\ reply_to.references = << <<"a">>, <<"b">>, <<"a">> >>
    /\ chain = << <<"a">>, <<"b">>, <<"c">> >>

\* C9 as stated, for every parent: the parent's references (stripped, the empty
\* ones left out) at their first occurrence, followed by the parent's
\* message-id when the parent has one that is not among them, and that id
\* occurs exactly once.
C9_Original ==
    pc = "done" =>
        LET id == Strip(reply_to.msgid)
        IN  /\ chain = FirstOccurrences(CleanReferences, 1)
                       \o (IF id # <<>> /\ Occurrences(CleanReferences, id) = 0
                           THEN <<id>> ELSE <<>>)
            /\ references_header = Join(chain, <<" ">>)
            /\ id # <<>> => Occurrences(chain, id) = 1

-----------------------------------------------------------------------------
(* Claims about thread levels, checked under SpecFind. *)

\* the number of entries of the i-th result's references that are non-empty
\* message-ids of messages of the result set
VisibleCount(i) ==
    Cardinality({k \in DOMAIN results[i].references :
                    /\ results[i].references[k] # ""
                    /\ \E j \in DOMAIN results :
                          results[j].msgid = results[i].references[k]})

\* C10: in every result set that find returns with threading enabled, and in
\* every one that find_thread returns, each message's thread_level is the
\* number of its references entries that are message-ids of messages of that
\* result set, capped at 10.
C10_ThreadLevels ==
    (pc = "done" /\ find_args.threads) =>
        \A i \in DOMAIN results :
            /\ results[i].thread_level = Min(VisibleCount(i), LevelCap)
            /\ results[i].thread_level \in 0..LevelCap

\* find_thread returned a message with more than 10 visible references entries,
\* at level 10
C10_Witness ==
    /\ pc = "done"
    /\ find_args.include_related
    /\ \E i \in DOMAIN results :
          VisibleCount(i) > LevelCap /\ results[i].thread_level = LevelCap

\* C10 as stated: the same for every result set that find or find_thread returns.
C10_Original ==
    pc = "done" =>
        \A i \in DOMAIN results :
            results[i].thread_level = Min(VisibleCount(i), LevelCap)

-----------------------------------------------------------------------------
(* Claims about the steps of move and _set_flag, checked under Spec. *)

\* C16: a move that fails pushes nothing onto the move history, so the history
\* only holds entries of moves whose rename took place.
C16_Original ==
    [][(Called("move") /\ ~last'.ok) => _move_history' = _move_history]_vars

\* C17: _set_flag runs `mu remove <old path>` and then `mu add <new path>`, and
\* only once the rename has taken place; when the rename fails, or the file is
\* missing, it runs neither and the database is left as it is.
C17_IndexAfterRename ==
    [][Called("set_flag") =>
        LET calls == last'.calls
            renamed == \E x \in files' :
                          /\ x.base = last'.path.base
                          /\ files' = (files \ {last'.path}) \cup {x}
        IN  /\ Len(calls) <= 2
            /\ Len(calls) >= 1 =>
                  /\ calls[1] = <<"remove", last'.path>>
                  /\ last'.path \in files /\ renamed
            /\ Len(calls) = 2 =>
                  /\ calls[2][1] = "add"
                  /\ calls[2][2] \in files'
                  /\ files' = (files \ {last'.path}) \cup {calls[2][2]}
            /\ last'.ok => Len(calls) = 2 /\ calls[2][2] = last'.ret
            /\ (last'.fault = "rename" \/ last'.path \notin files) =>
                  calls = <<>> /\ idx' = idx /\ files' = files]_vars

\* C17 witness: a call whose rename failed on a file that exists, and that ran
\* no indexer command
C17_Witness ==
    /\ last.op = "set_flag" /\ last.fault = "rename"
    /\ last.path \in files /\ ~last.ok
    /\ last.calls = <<>>

\* C18: a successful _set_flag on a file in a folder's new directory leaves,
\* by one rename, the file in the cur directory of the same folder, which
\* exists afterwards; a file in another directory stays in its directory.
C18_NewToCur ==
    [][(Called("set_flag") /\ last'.ok) =>
        LET p == last'.path
            r == last'.ret
        IN  /\ r.folder = p.folder
            /\ r.base = p.base
            /\ r.tier = IF p.tier = "new" THEN "cur" ELSE p.tier
            /\ <<r.folder, r.tier>> \in dirs'
            /\ files' = (files \ {p}) \cup {r}]_vars

\* C18 witness: the first call flagged the message that lay in inbox/new, when
\* inbox/cur did not exist, and the file is now in inbox/cur
C18_Witness ==
    /\ nops = 1 /\ last.op = "set_flag" /\ last.ok
    /\ last.path.tier = "new" /\ last.ret.tier = "cur"
    /\ last.ret \in files /\ last.path \notin files
    /\ <<"inbox", "cur">> \in dirs

\* the position of a flag character in the order of the characters
Rank(c) == CHOOSE k \in DOMAIN FlagOrder : FlagOrder[k] = c

\* the positions of delta that hold an operation on flag c: the odd positions
\* followed by c
OpsOn(delta, c) ==
    {k \in DOMAIN delta : k % 2 = 1 /\ k + 1 <= Len(delta) /\ delta[k + 1] = c
                          /\ delta[k] \in {"+", "-"}}

\* whether c is set once delta's operations are applied left to right to a set
\* in which c is set iff was: the last operation on c decides, if there is one
SetAfter(delta, c, was) ==
    IF OpsOn(delta, c) = {} THEN was
    ELSE LET k == CHOOSE k \in OpsOn(delta, c) : \A j \in OpsOn(delta, c) : j <= k
         IN  delta[k] = "+"

\* C19: after a successful flag operation the file's name is <base>:2,<flags>
\* with the base it had, and <flags> holds each character at most once, in
\* sorted order, and holds exactly the characters of the old flags with the
\* delta's operations applied left to right.
C19_SortedFlags ==
    [][(Called("set_flag") /\ last'.ok) =>
        LET p == last'.path
            r == last'.ret
            old == IF p.delim THEN SeqToSet(p.flags) ELSE {}
        IN  /\ r.delim /\ r.base = p.base
            /\ \A i, j \in DOMAIN r.flags : i < j => Rank(r.flags[i]) < Rank(r.flags[j])
            /\ \A c \in SeqToSet(FlagOrder) :
                  c \in SeqToSet(r.flags) <=> SetAfter(last'.delta, c, c \in old)]_vars

\* C19 witness: a call that changed the flags of a file and left two of them
C19_Witness ==
    /\ last.op = "set_flag" /\ last.ok
    /\ last.path.delim /\ last.path.flags # last.ret.flags
    /\ Len(last.ret.flags) >= 2

-----------------------------------------------------------------------------
(* Claims about the parts of a viewed message, checked under SpecParts. *)

\* the positions to follow from the message down to the part n
RECURSIVE PathTo(_, _)
PathTo(tree, n) ==
    IF n = 1 THEN <<>>
    ELSE LET p == CHOOSE p \in DOMAIN tree :
                      \E i \in DOMAIN tree[p].children : tree[p].children[i] = n
             i == CHOOSE i \in DOMAIN tree[p].children : tree[p].children[i] = n
         IN  Append(PathTo(tree, p), i)

\* the part a comes before the part b in the depth-first order: a contains b, or
\* where their ways down part, a takes the earlier sub-part
Precedes(tree, a, b) ==
    LET p == PathTo(tree, a)
        q == PathTo(tree, b)
    IN  \E k \in 1..Len(q) :
            /\ k - 1 <= Len(p)
            /\ \A j \in 1..(k - 1) : p[j] = q[j]
            /\ (Len(p) = k - 1 \/ p[k] < q[k])

\* the number of parts that are no multipart container, up to and with the part n
LeafIndex(tree, n) ==
    Cardinality({m \in DOMAIN tree :
                    /\ tree[m].content_type \notin MultipartTypes
                    /\ (m = n \/ Precedes(tree, m, n))})

\* the parts listed as attachments
AttachmentParts(tree) ==
    {n \in DOMAIN tree :
        tree[n].content_type \notin MultipartTypes /\ IsAttachmentPart(tree[n])}

\* the k-th of them in the depth-first order
AttachmentPart(tree, k) ==
    CHOOSE n \in AttachmentParts(tree) :
        Cardinality({m \in AttachmentParts(tree) : Precedes(tree, m, n)}) = k - 1

\* C11: in a multipart message the part_index of an attachment is the number of
\* parts that are no multipart container met up to it in the depth-first walk,
\* at any depth, the body parts counted and the containers not; the indices of
\* the attachments grow strictly along the list
C11_PartIndex ==
    (pc = "done" /\ email_msg[1].children # <<>>) =>
        LET atts == view_msg.attachments
        IN  /\ Len(atts) = Cardinality(AttachmentParts(email_msg))
            /\ \A k \in DOMAIN atts :
                  atts[k].part_index = LeafIndex(email_msg, AttachmentPart(email_msg, k))
            /\ \A k \in DOMAIN atts :
                  k < Len(atts) => atts[k].part_index < atts[k + 1].part_index

\* C11 witness: a message with a container inside it and a body part before
\* its two attachments, the second of them one level above the first
C11_Witness ==
    /\ pc = "done"
    /\ \E n \in DOMAIN email_msg :
          n # 1 /\ email_msg[n].content_type = "multipart/alternative"
    /\ Len(view_msg.attachments) = 2
    /\ view_msg.attachments[1].part_index = 2
    /\ view_msg.attachments[2].part_index = 3
    /\ view_msg.body_txt # <<>>
    /\ Len(PathTo(email_msg, AttachmentPart(email_msg, 1))) = 2
    /\ Len(PathTo(email_msg, AttachmentPart(email_msg, 2))) = 1

\* the parts of the walk that are no multipart container, in order
LeafWalk(tree) ==
    LET IsLeaf(n) == tree[n].content_type \notin MultipartTypes
    IN  SelectSeq(Walk(tree, 1), IsLeaf)

\* the first rule that matches a part whose disposition is read as attachment
\* (att) or inline (inl)
RuleOf(part, att, inl) ==
    IF att THEN "attachment"
    ELSE IF inl /\ part.filename # "" /\ part.content_type \notin TextTypes
    THEN "inline attachment"
    ELSE IF part.filename # "" /\ part.content_type \notin {"text/plain", "text/html"}
    THEN "attachment"
    ELSE IF part.content_type = "text/plain" THEN "text"
    ELSE IF part.content_type = "text/html" THEN "html"
    ELSE "none"

\* the attachments, the text body and the HTML body that the rules give, with
\* the separator put between the text parts
Classified(tree, rule(_), sep, skip_empty) ==
    LET IsAtt(n) == rule(tree[n]) \in {"attachment", "inline attachment"}
        Kept(n, kind) == rule(tree[n]) = kind /\ (skip_empty => tree[n].payload # <<>>)
        IsText(n) == Kept(n, "text")
        IsHtml(n) == Kept(n, "html")
        atts == SelectSeq(LeafWalk(tree), IsAtt)
        texts == SelectSeq(LeafWalk(tree), IsText)
        htmls == SelectSeq(LeafWalk(tree), IsHtml)
    IN  [attachments |-> [k \in DOMAIN atts |->
                            [content_type |-> tree[atts[k]].content_type,
                             filename |-> IF tree[atts[k]].filename # ""
                                          THEN tree[atts[k]].filename ELSE "attachment"]],
         body_txt |-> Join([k \in DOMAIN texts |-> tree[texts[k]].payload], sep),
         body_html |-> Join([k \in DOMAIN htmls |-> tree[htmls[k]].payload], <<>>)]

\* what view() gave, without the indices
Given ==
    [attachments |-> [k \in DOMAIN view_msg.attachments |->
                        [content_type |-> view_msg.attachments[k].content_type,
                         filename |-> view_msg.attachments[k].filename]],
     body_txt |-> view_msg.body_txt,
     body_html |-> view_msg.body_html]

-----------------------------------------------------------------------------
(* Claim about the round trip of an address, checked under SpecAddress. *)

\* C12 as stated, for the addresses with an email and a name that neither
\* starts nor ends with a blank (no sample name has an angle bracket): the
\* address parsed from str(address) is the address
C12_Original ==
    (/\ pc = "done"
     /\ address.email # ""
     /\ address.name = Strip(address.name)) =>
        /\ parsed_address.name = address.name
        /\ parsed_address.email = <<address.email>>

-----------------------------------------------------------------------------
(* Claims about find and the indexer's output, checked under SpecOutput. *)

\* C13: when mu exits with a code other than zero, find returns the empty
\* sequence and raises nothing, whatever mu printed on stdout and stderr
C13_NonZeroExit ==
    (pc = "done" /\ mu_result.returncode # 0) =>
        /\ ~find_return.raised
        /\ find_return.messages = <<>>

\* C13 witness: mu failed without saying "no matches" and printed a list of two
\* messages that find would have returned
C13_Witness ==
    /\ pc = "done"
    /\ mu_result.returncode = 1
    /\ mu_result.stderr = ""
    /\ Len(mu_result.stdout) = 1
    /\ Len(FindOutput([mu_result EXCEPT !.returncode = 0], FALSE).messages) = 2
    /\ find_return.messages = <<>>

\* the fallback meets a line that is neither skipped nor JSON
Unparseable(line) ==
    /\ line # <<>>
    /\ line \notin {<<Tok("[")>>, <<Tok("]")>>, <<Tok(",")>>}
    /\ ~JsonLoads(RStripCommas(line)).ok

\* C14 as stated: find never raises on what mu printed, and when the output is
\* no single JSON value and one of its lines cannot be parsed find returns the
\* empty sequence
C14_Original ==
    (pc = "done" /\ mu_result.returncode = 0) =>
        /\ ~find_return.raised
        /\ (/\ ~JsonLoads(Tokens(mu_result.stdout)).ok
            /\ \E i \in DOMAIN mu_result.stdout : Unparseable(mu_result.stdout[i]))
           => find_return.messages = <<>>

-----------------------------------------------------------------------------
(* Claim about Ctrl+Q, checked under SpecApp. *)

\* the active tab is a compose tab
ComposeTabActive == active \in DOMAIN _tabs /\ _tabs[active] = "compose"

\* C15: a Ctrl+Q pressed while the active tab is a compose tab leaves the
\* application running and the active tab (and every tab) as it was; a Ctrl+Q
\* pressed while another tab is active, tab-0 included, exits the application
C15_CtrlQ ==
    [][pc' = "ctrl+q" =>
          IF ComposeTabActive
          THEN ~exited' /\ active' = active /\ _tabs' = _tabs /\ _tab_order' = _tab_order
          ELSE exited']_vars

\* C15 witness: Ctrl+Q was pressed in a compose tab opened next to another tab
\* and the application still runs with that tab active
C15_Witness ==
    /\ pc = "ctrl+q"
    /\ ~exited
    /\ ComposeTabActive
    /\ Len(_tab_order) = 2

-----------------------------------------------------------------------------
(* Claims about failed calls and the undo history, checked under Spec. *)

\* C24 as stated: a _set_flag or move call on an existing file that hands no new
\* path back (it returns None or raises) leaves the file at its original path
C24_Original ==
    [][((Called("set_flag") \/ Called("move")) /\ ~last'.ok /\ last'.path \in files) =>
          last'.path \in files']_vars

\* C25: an undo_move on a history that is not empty takes its last entry away
\* and leaves the others; when the moved file of that entry is gone, or the
\* move back fails, it returns failure and no file changes place; otherwise the
\* file of that entry, the one moved last, is back at its original path
C25_UndoPopsLast ==
    [][(Called("undo_move") /\ _move_history # <<>>) =>
          LET n == Len(_move_history)
              current == _move_history[n][1]
              original == _move_history[n][2]
          IN  /\ Len(_move_history') = n - 1
              /\ \A i \in 1..(n - 1) : _move_history'[i] = _move_history[i]
              /\ (current \notin files \/ last'.fault # "none") =>
                    ~last'.ok /\ files' = files
              /\ (current \in files /\ last'.fault = "none") =>
                    last'.ok /\ files' = (files \ {current}) \cup {original}]_vars

\* C25 witness: two files were moved and the undo_move that follows has put
\* the second back, the first being still where it was moved to and its entry
\* the one left in the history
C25_Witness ==
    /\ nops = 3 /\ ~faulted
    /\ last.op = "undo_move" /\ last.ok
    /\ last.ret \in files /\ last.path \notin files
    /\ Len(_move_history) = 1
    /\ _move_history[1][1] \in files
    /\ _move_history[1][2] \notin files
    /\ _move_history[1][2].base # last.ret.base

-----------------------------------------------------------------------------
(* Claim about the tabs of the application, checked under SpecApp. *)

\* the ids of _tab_order
TabOrderIds == {_tab_order[i] : i \in DOMAIN _tab_order}

\* C28: after every add_tab and close_tab the tab order holds the ids of the
\* open tabs, each once; a new tab gets an id that no tab had before; tab-0 is
\* no tab of _tabs, so it is never closed or replaced, and is the first of the
\* display order; closing a tab makes tab-0 the active tab
C28_TabOrder ==
    [][/\ TabOrderIds' = DOMAIN _tabs'
       /\ \A i, j \in DOMAIN _tab_order' : i # j => _tab_order'[i] # _tab_order'[j]
       /\ 0 \notin DOMAIN _tabs'
       /\ OrderedTabIds'[1] = 0
       /\ Len(OrderedTabIds') = Len(_tab_order') + 1
       /\ \A id \in DOMAIN _tabs' : id <= _tab_counter'
       /\ _tab_counter' >= _tab_counter
       /\ \A id \in DOMAIN _tabs' \ DOMAIN _tabs : id > _tab_counter
       /\ pc' = "close_tab" => active' = 0]_vars

\* C28 witness: the second tab was replaced by the third and the first then
\* closed, which leaves tab-3 alone in the order and tab-0 active
C28_Witness ==
    /\ pc = "close_tab"
    /\ _tab_counter = 3
    /\ _tab_order = <<3>>
    /\ active = 0

-----------------------------------------------------------------------------
(* Claims about the message view and the marks, checked under SpecUI. *)

\* C26 as stated: after an archive or delete from the message view that moved
\* the file, the view is closed or shows another message than the one moved
C26_Original ==
    [][(/\ nops' = nops + 1
        /\ uiLast'.op = "view_move"
        /\ ~faulted'
        /\ view.full \in files /\ view.full \notin files') =>
            (view'.open /\ view'.full # NoPath => view'.full.base # view.full.base)]_vars

\* C27 as stated: every mark is a row of the list, and a mark that a step
\* leaves in place is on the message it was on before the step; a new mark is
\* the one the mark key puts on the row under the cursor
C27_Original ==
    [][\A i \in marked_messages' :
          /\ i \in DOMAIN messages'
          /\ i \in marked_messages =>
                i \in DOMAIN messages /\ messages'[i].msgid = messages[i].msgid
          /\ i \notin marked_messages => uiLast'.op = "mark" /\ i = cursor_row]_vars

-----------------------------------------------------------------------------
(* Claims about the tree prefixes, checked under SpecPrefix. *)

\* a row after row i has the level lvl or more, and no row between the two
\* has less
ReachedAtLeast(i, lvl) ==
    \E j \in (i+1)..Len(thread_levels) :
        \A k \in (i+1)..j : thread_levels[k] >= lvl

\* a row after row i has the level lvl, and no row between the two has less
ReachedSame(i, lvl) ==
    \E j \in (i+1)..Len(thread_levels) :
        /\ thread_levels[j] = lvl
        /\ \A k \in (i+1)..(j-1) : thread_levels[k] >= lvl

\* C21: the prefix of a row has as many glyphs as the row's thread level; below
\* the row's level the glyph is the vertical one when a later row has at least
\* that level before any row has less, and the blank otherwise; at the row's
\* level it is the last-branch glyph when no later row of the same level comes
\* before a row of a lower one, and the mid-branch glyph otherwise.
C21_Prefixes ==
    pc = "done" =>
        /\ DOMAIN thread_prefixes = DOMAIN thread_levels
        /\ \A i \in DOMAIN thread_levels :
              LET level == thread_levels[i]
                  prefix == thread_prefixes[i]
              IN  /\ Len(prefix) = level
                  /\ \A lvl \in 1..(level - 1) :
                        prefix[lvl] = IF ReachedAtLeast(i, lvl) THEN Vertical ELSE Blank
                  /\ level > 0 =>
                        prefix[level] =
                            IF ReachedSame(i, level) THEN MidBranch ELSE LastBranch

\* a list whose prefixes hold each of the four glyphs, one of them the last
\* branch of a row that a later row of the same level follows after the
\* nesting dropped
C21_Witness ==
    /\ pc = "done"
    /\ thread_levels = <<2, 2, 0, 2>>
    /\ thread_prefixes = << <<Vertical, MidBranch>>, <<Blank, LastBranch>>, <<>>,
                            <<Blank, LastBranch>> >>

-----------------------------------------------------------------------------
(* Claims about the Ctrl+L sequences, checked under SpecCtrl. *)

\* C30 as stated: a key event that reaches an input with Ctrl+L pending clears
\* the pending state and goes no further, and posts the command of L, D, X, T,
\* C, B, S, E or A once and nothing for another key; a key event that reaches
\* an input with no Ctrl+L pending posts nothing.
C30_Original ==
    [][nkeys' = nkeys + 1 =>
          LET key == Lower(key_event'.key)
          IN  IF _ctrl_l_pressed[focused]
              THEN /\ ~_ctrl_l_pressed'[focused]
                   /\ key_event'.outcome # "super"
                   /\ posted' = IF key \in DOMAIN Command
                                THEN Append(posted, Command[key]) ELSE posted
              ELSE posted' = posted]_vars

-----------------------------------------------------------------------------
(* Claims about the address start, checked under SpecStart. *)

\* the text read from its start up to the position n: whether a quoted
\* substring is open there, and whether the character at n is escaped
RECURSIVE ReadTo(_, _)
ReadTo(txt, n) ==
    IF n = 0 THEN [quoted |-> FALSE, escaped |-> FALSE]
    ELSE LET before == ReadTo(txt, n - 1)
             char == txt[n]
         IN  IF before.escaped THEN [quoted |-> before.quoted, escaped |-> FALSE]
             ELSE IF char = "\\" THEN [quoted |-> before.quoted, escaped |-> TRUE]
             ELSE IF char = "\"" THEN [quoted |-> ~before.quoted, escaped |-> FALSE]
             ELSE before

\* the position i lies in a double-quoted substring: a quote that is not
\* escaped opened it before i and one closes it after i
InQuoted(txt, i) ==
    /\ ReadTo(txt, i).quoted
    /\ \E j \in (i + 1)..(Len(txt) - 1) :
          txt[j + 1] = "\"" /\ ~ReadTo(txt, j).escaped

\* the commas before the cursor that are in no double-quoted substring
Separators ==
    {i \in 0..(cursor_pos - 1) : value[i + 1] = "," /\ ~InQuoted(value, i)}

\* C23 as stated: _find_address_start returns the position after the last
\* comma before the cursor that is in no double-quoted substring, an escaped
\* quote neither opening nor closing one, and 0 when there is no such comma.
C23_Original ==
    pc = "done" =>
        address_start =
            IF Separators = {} THEN 0
            ELSE (CHOOSE i \in Separators : \A k \in Separators : k <= i) + 1

-----------------------------------------------------------------------------
(* Claims about the synchronization tab, checked under SpecSync. *)

\* C29: a step that ends run_sync, whatever the way it ends, leaves running
\* false and _process None, and they stay so while no run is under way; a
\* step that calls run_sync is taken while running is false and no worker is
\* between its start and its end.
C29_RunSyncEnds ==
    [][/\ worker' = "ended" => ~running' /\ _process' = "None"
       /\ worker' \in {"unmounted", "scheduled", "ended"} <=> ~running'
       /\ nruns' = nruns + 1 =>
             ~running /\ worker \in {"unmounted", "scheduled", "ended"}]_vars

\* a second run that ended with a failing exit code after the first one ended
\* as the command was not found
C29_Witness ==
    /\ nruns = 2
    /\ worker = "ended"
    /\ ended_how = "failed"
    /\ exit_code = "1"
    /\ ~running
    /\ _process = "None"

\* C22 as stated: a _cancel_sync task that finds a living process of a run
\* sends terminate; kill goes only to a process that got terminate before and
\* has not exited at the end of the sleep; the steps of the task keep the lines
\* of the log; and a task that sent terminate to a living process and slept
\* ends with the cancellation line written to the log.
C22_Original ==
    [][\A c \in 1..MaxCancelTasks :
          /\ (cancel_tasks[c] = "scheduled" /\ cancel_tasks'[c] # "scheduled"
              /\ _process # "None" /\ running /\ proc.alive)
                => proc'.signals = Append(proc.signals, "terminate")
          /\ (cancel_tasks'[c] # cancel_tasks[c] /\ cancel_tasks[c] # "idle")
                => /\ SubSeq(output_log', 1, Len(output_log)) = output_log
                   /\ proc'.signals # proc.signals /\ cancel_tasks[c] = "sleeping"
                         => /\ proc.alive
                            /\ proc.signals # <<>> /\ proc.signals[1] = "terminate"
                            /\ proc'.signals = Append(proc.signals, "kill")
          /\ (cancel_tasks[c] = "sleeping" /\ cancel_tasks'[c] = "done"
              /\ proc.signals # <<>>)
                => output_log' = Append(output_log, "cancelled")]_vars

=============================================================================
